---- MODULE Spec2Model ----
(***************************************************************************)
(* Request orchestration core of gmail_reader: the token-bucket rate       *)
(* limiter (client.py, TokenBucketRateLimiter), the retrying request       *)
(* executor (client.py, execute_gmail_request), the paginator (reports.py, *)
(* _fetch_all_messages) and the body decoder (reports.py, _parse_body and  *)
(* _decode_bytes).                                                         *)
(*                                                                         *)
(* Units.  The limiter works on floats; the model keeps them exact on a    *)
(* lattice.  A token is TokenUnit units, and one clock tick is             *)
(* 1/(rate*TokenUnit) seconds, so that `elapsed * rate` tokens is exactly  *)
(* `elapsed ticks` units and `(1.0 - tokens) / rate` seconds is exactly    *)
(* `TokenUnit - tokens` ticks.  The clock is time.time(), taken to be      *)
(* non-decreasing.  Time passes while a thread sleeps, waits for the lock, *)
(* runs a request or is outside the client; the few statements of          *)
(* acquire() between taking the lock and releasing it, time.sleep apart,   *)
(* take no time, so that every delay measured is a delay the limiter       *)
(* imposed and not one of the thread scheduler.                            *)
(***************************************************************************)
EXTENDS Integers, Sequences, FiniteSets, TLC

\* ---------------------------------------------------------------- bounds
NThreads == 2      \* threads that call into the client
MaxCalls == 4      \* acquire() calls started in one behaviour
MaxTime == 6       \* last clock tick explored
TokenUnit == 2     \* units per token (resolution of the float balance)
MaxRate == 2       \* largest GMAIL_RATE_LIMIT_RPS explored

Threads == 1 .. NThreads
NoThread == 0

Min(a, b) == IF a < b THEN a ELSE b

VARIABLES
    clock,        \* time.time(), in ticks
    rate,         \* self.rate (tokens per second)
    capacity,     \* self.capacity, in units
    tokens,       \* self.tokens, in units
    last_update,  \* self.last_update, in ticks
    lock,         \* self.lock: the thread holding it, or NoThread
    pc,           \* per thread: position in acquire()
    now,          \* per thread: local `now` of acquire()
    wakeAt,       \* per thread: tick at which time.sleep() may return
    seen,         \* per thread: the balance the thread tested at line 46
    calls,        \* number of acquire() calls started
    returns,      \* clock values at which acquire() calls returned, in order
    lastRelease,  \* tick of the last return (or of construction)
    burstLeft,    \* calls still owed a no-wait return since the last idle period
    inBurst,      \* per thread: the running call is one of those calls
    cont,         \* per thread: where the caller of acquire() continues
    attempt,      \* execute_gmail_request: loop variable `attempt`
    last_error,   \* execute_gmail_request: local `last_error`
    attempts,     \* invocations of request_callable in the running call
    acquired,     \* acquire() calls made by the running execute_gmail_request
    lastResp,     \* what the last invocation of request_callable produced
    failures,     \* retryable failures seen in the running call
    sleepCount,   \* backoff sleeps completed in the running call
    lastSleep,    \* duration of the last backoff sleep, in seconds
    result,       \* value returned by execute_gmail_request
    raised,       \* exception execute_gmail_request ended with
    max_results,  \* _fetch_all_messages: argument max_results
    seen_tokens,  \* _fetch_all_messages: local seen_tokens
    all_messages, \* _fetch_all_messages: local all_messages (the accumulator)
    page_token,   \* _fetch_all_messages: local page_token
    page_count,   \* _fetch_all_messages: local page_count
    pgPc,         \* position of the pagination session
    fetched,      \* list returned by _fetch_all_messages
    fetchRaised,  \* exception _fetch_all_messages ended with
    listCalls,    \* list requests issued in the session
    lastPage,     \* outcome of the last list request
    repeated,     \* the last page carried a token returned earlier in the session
    stop,         \* which exit of the loop ended the session
    document,     \* _parse_body: the argument payload, a message document
    parsed,       \* _parse_body: what the call produced
    rawBytes,     \* _decode_bytes: the argument data
    decodedText,  \* _decode_bytes: what the call returned
    messages,     \* fetch_message_details: the argument messages, by id
    batchPos,     \* fetch_message_details: position of the for loop
    message_data, \* fetch_message_details: local message_data, by id
    outcomes,     \* how the detail request of each message so far ended
    batchPc,      \* position of the fetch_message_details call
    batchRaised,  \* exception fetch_message_details ended with
    fullPc,       \* position of the fetch_message_full_detail call
    fullOutcome,  \* how its request ended
    fullEnded,    \* what fetch_message_full_detail returned or raised
    opLog,        \* commands and tools run so far, in order
    apiCalled,    \* Gmail API methods invoked so far
    scopesUsed,   \* OAuth scopes requested so far
    session,      \* per pagination session: the locals of its _fetch_all_messages
    script,       \* per session: the list responses it has received, in order
    sentTokens,   \* per session: the page token of each list request, in order
    envFile,      \* ~/.env: whether it exists and what it assigns
    environ,      \* os.environ, for the three GMAIL_ variables
    config,       \* how load_config ended
    envLines,     \* ~/.env on disk, line by line
    startLines,   \* ~/.env before the first call
    flock,        \* the process holding the exclusive lock, or NoProcess
    authPc,       \* per auth process: its position in _append_refresh_token_to_env
    content,      \* per auth process: what lock_file.read() gave it
    buffered,     \* per auth process: written to lock_file and not yet flushed
    lockOrder     \* the processes in the order they took the lock

limiterVars == <<clock, rate, capacity, tokens, last_update, lock, pc, now, wakeAt,
                 seen, calls, returns, lastRelease, burstLeft, inBurst, cont>>

execVars == <<attempt, last_error, attempts, acquired, lastResp, failures,
              sleepCount, lastSleep, result, raised>>

pageVars == <<max_results, seen_tokens, all_messages, page_token, page_count, pgPc,
              fetched, fetchRaised, listCalls, lastPage, repeated, stop>>

bodyVars == <<document, parsed>>

decodeVars == <<rawBytes, decodedText>>

batchVars == <<messages, batchPos, message_data, outcomes, batchPc, batchRaised,
               fullPc, fullOutcome, fullEnded>>

apiVars == <<opLog, apiCalled, scopesUsed>>

sessionVars == <<session, script, sentTokens>>

configVars == <<envFile, environ, config>>

authVars == <<envLines, startLines, flock, authPc, content, buffered, lockOrder>>

\* What the limiter, the executor, the paginator and the body decoder
\* leave alone.
otherVars == <<decodeVars, batchVars, apiVars, sessionVars, configVars, authVars>>

vars == <<limiterVars, execVars, pageVars, bodyVars, otherVars>>

\* Everything but the variables of one component.
outsideDecode ==
    <<limiterVars, execVars, pageVars, bodyVars, batchVars, apiVars, sessionVars, configVars, authVars>>
outsideBatch ==
    <<limiterVars, execVars, pageVars, bodyVars, decodeVars, apiVars, sessionVars, configVars, authVars>>
outsideApi ==
    <<limiterVars, execVars, pageVars, bodyVars, decodeVars, batchVars, sessionVars, configVars, authVars>>
outsideSession ==
    <<limiterVars, execVars, pageVars, bodyVars, decodeVars, batchVars, apiVars, configVars, authVars>>
outsideConfig ==
    <<limiterVars, execVars, pageVars, bodyVars, decodeVars, batchVars, apiVars, sessionVars, authVars>>
outsideAuth ==
    <<limiterVars, execVars, pageVars, bodyVars, decodeVars, batchVars, apiVars, sessionVars, configVars>>






\* ------------------------------------------------- TokenBucketRateLimiter
\* The `capacity` argument of __init__, in units; None is what the
\* module-level limiter, the only one the program constructs, passes.
None == 0

\* self.capacity = capacity or rate   (None and 0 both select the rate)
CapacityOrRate(capArg, r) == IF capArg = None THEN r * TokenUnit ELSE capArg

\* Mutation: the refill is not clamped to the capacity.
RefilledUncapped(tok, elapsed, cap) == tok + elapsed

\* Mutation: idle time earns no tokens.
RefilledNever(tok, elapsed, cap) == Min(cap, tok)

\* min(self.capacity, self.tokens + elapsed * self.rate)
Refilled(tok, elapsed, cap) == Min(cap, tok + elapsed)

\* Mutation: the wait is not divided by the rate ((1.0 - self.tokens) seconds).
SleepTimeUndivided(tok) == (TokenUnit - tok) * rate

\* (1.0 - self.tokens) / self.rate, in ticks
SleepTime(tok) == TokenUnit - tok

\* floor(capacity), in tokens
WholeTokens(cap) == cap \div TokenUnit

\* _rate_limiter = TokenBucketRateLimiter(rate=GMAIL_RATE_LIMIT_RPS), where
\* GMAIL_RATE_LIMIT_RPS = max(1, int(...)) is an integer >= 1
InitLimiter ==
    /\ clock = 0
    /\ rate \in 1 .. MaxRate
    /\ capacity = CapacityOrRate(None, rate)
    /\ tokens = capacity
    /\ last_update = 0
    /\ lock = NoThread
    /\ pc = [t \in Threads |-> "idle"]
    /\ now = [t \in Threads |-> 0]
    /\ wakeAt = [t \in Threads |-> 0]
    /\ seen = [t \in Threads |-> 0]
    /\ calls = 0
    /\ returns = << >>
    /\ lastRelease = 0
    /\ burstLeft = WholeTokens(capacity)
    /\ inBurst = [t \in Threads |-> FALSE]

\* Wall-clock time passes, by any amount, except across the statements of
\* acquire() that compute (see Units above).  The clock is explored up to
\* MaxTime, and past it only for as long as a time.sleep is in progress.
Tick ==
    /\ \/ clock < MaxTime
       \/ \E t \in Threads : pc[t] = "sleep" /\ clock < wakeAt[t]
    /\ \A t \in Threads : pc[t] \notin {"now", "refill", "test", "debit", "unlock"}
    /\ clock' = clock + 1
    /\ UNCHANGED <<rate, capacity, tokens, last_update, lock, pc, now, wakeAt, seen,
                   calls, returns, lastRelease, burstLeft, inBurst, cont, execVars>>
    /\ UNCHANGED <<pageVars, bodyVars, otherVars>>

\* A thread calls acquire().
Acquire(t) ==
    /\ pc[t] = "idle"
    /\ calls < MaxCalls
    /\ calls' = calls + 1
    /\ pc' = [pc EXCEPT ![t] = "lock"]
    /\ cont' = [cont EXCEPT ![t] = "idle"]
    /\ UNCHANGED <<clock, rate, capacity, tokens, last_update, lock, now, wakeAt, seen,
                   returns, lastRelease, burstLeft, inBurst, execVars>>
    /\ UNCHANGED <<pageVars, bodyVars, otherVars>>

\* Mutation: the critical section is entered without taking the lock.
AcquireLockNoMutex(t) ==
    /\ pc[t] = "lock"
    /\ lock' = t
    /\ pc' = [pc EXCEPT ![t] = "now"]
    /\ UNCHANGED <<clock, rate, capacity, tokens, last_update, now, wakeAt, seen,
                   calls, returns, lastRelease, burstLeft, inBurst, cont, execVars>>
    /\ UNCHANGED <<pageVars, bodyVars, otherVars>>

\* with self.lock:   (entry)
\* The call is one of the burst when the limiter was idle for capacity/rate
\* seconds (= capacity ticks) or fewer than floor(capacity) calls followed
\* such an idle period.
AcquireLock(t) ==
    /\ pc[t] = "lock"
    /\ lock = NoThread
    /\ lock' = t
    /\ pc' = [pc EXCEPT ![t] = "now"]
    /\ LET owed == IF clock - lastRelease >= capacity
                   THEN WholeTokens(capacity) ELSE burstLeft
       IN /\ inBurst' = [inBurst EXCEPT ![t] = owed > 0]
          /\ burstLeft' = IF owed > 0 THEN owed - 1 ELSE 0
    /\ UNCHANGED <<clock, rate, capacity, tokens, last_update, now, wakeAt, seen,
                   calls, returns, lastRelease, cont, execVars>>
    /\ UNCHANGED <<pageVars, bodyVars, otherVars>>

\* now = time.time()
ReadNow(t) ==
    /\ pc[t] = "now"
    /\ now' = [now EXCEPT ![t] = clock]
    /\ pc' = [pc EXCEPT ![t] = "refill"]
    /\ UNCHANGED <<clock, rate, capacity, tokens, last_update, lock, wakeAt, seen,
                   calls, returns, lastRelease, burstLeft, inBurst, cont, execVars>>
    /\ UNCHANGED <<pageVars, bodyVars, otherVars>>

\* elapsed = now - self.last_update; self.tokens = min(...); self.last_update = now
Refill(t) ==
    /\ pc[t] = "refill"
    /\ tokens' = Refilled(tokens, now[t] - last_update, capacity)
    /\ last_update' = now[t]
    /\ pc' = [pc EXCEPT ![t] = "test"]
    /\ UNCHANGED <<clock, rate, capacity, lock, now, wakeAt, seen, calls, returns,
                   lastRelease, burstLeft, inBurst, cont, execVars>>
    /\ UNCHANGED <<pageVars, bodyVars, otherVars>>

\* if self.tokens < 1.0: sleep_time = ...; time.sleep(sleep_time)   else: ...
Test(t) ==
    /\ pc[t] = "test"
    /\ seen' = [seen EXCEPT ![t] = tokens]
    /\ IF tokens < TokenUnit
       THEN /\ wakeAt' = [wakeAt EXCEPT ![t] = clock + SleepTime(tokens)]
            /\ pc' = [pc EXCEPT ![t] = "sleep"]
       ELSE /\ pc' = [pc EXCEPT ![t] = "debit"]
            /\ UNCHANGED wakeAt
    /\ UNCHANGED <<clock, rate, capacity, tokens, last_update, lock, now, calls,
                   returns, lastRelease, burstLeft, inBurst, cont, execVars>>
    /\ UNCHANGED <<pageVars, bodyVars, otherVars>>

\* time.sleep(sleep_time) returns; self.tokens = 0.0
Wake(t) ==
    /\ pc[t] = "sleep"
    /\ clock >= wakeAt[t]
    /\ tokens' = 0
    /\ pc' = [pc EXCEPT ![t] = "unlock"]
    /\ UNCHANGED <<clock, rate, capacity, last_update, lock, now, wakeAt, seen, calls,
                   returns, lastRelease, burstLeft, inBurst, cont, execVars>>
    /\ UNCHANGED <<pageVars, bodyVars, otherVars>>

\* self.tokens -= 1.0
Debit(t) ==
    /\ pc[t] = "debit"
    /\ tokens' = tokens - TokenUnit
    /\ pc' = [pc EXCEPT ![t] = "unlock"]
    /\ UNCHANGED <<clock, rate, capacity, last_update, lock, now, wakeAt, seen, calls,
                   returns, lastRelease, burstLeft, inBurst, cont, execVars>>
    /\ UNCHANGED <<pageVars, bodyVars, otherVars>>

\* with self.lock:   (exit); acquire() returns
ReleaseLock(t) ==
    /\ pc[t] = "unlock"
    /\ lock' = NoThread
    /\ returns' = Append(returns, clock)
    /\ lastRelease' = clock
    /\ pc' = [pc EXCEPT ![t] = cont[t]]
    /\ UNCHANGED <<clock, rate, capacity, tokens, last_update, now, wakeAt, seen,
                   calls, burstLeft, inBurst, cont, execVars>>
    /\ UNCHANGED <<pageVars, bodyVars, otherVars>>

\* ---------------------------------------------------- execute_gmail_request
\* config.py: GMAIL_MAX_RETRIES, GMAIL_RETRY_BASE_WAIT (seconds); the defaults
GMAIL_MAX_RETRIES == 3
GMAIL_RETRY_BASE_WAIT == 2

\* _RETRYABLE_STATUS_CODES = {429, 500, 502, 503}
RETRYABLE_STATUS_CODES == {429, 500, 502, 503}

\* The thread whose execute_gmail_request calls are followed.
Executor == 1

\* Header values are strings, kept as sequences of characters.
\* error.resp.get("retry-after") is None when the header is absent.
NoHeader == [present |-> FALSE, text |-> << >>]
Header(chars) == [present |-> TRUE, text |-> chars]

\* Retry-After values a server may send: none, "0", "3", "-1" and a
\* non-numeric one (an HTTP-date, say).
RetryAfterValues ==
    {NoHeader, Header(<<"0">>), Header(<<"3">>), Header(<<"-", "1">>), Header(<<"x">>)}

\* HTTP statuses of failures: the retryable ones and a terminal one.
Statuses == RETRYABLE_STATUS_CODES \cup {404}

Payloads == {"p", "q"}

\* What one invocation of request_callable can produce: a payload, an
\* HttpError with a status and headers, or some other exception.
Success(payload) ==
    [kind |-> "ok", status |-> 200, retry_after |-> NoHeader, payload |-> payload]
HttpError(status, header) ==
    [kind |-> "HttpError", status |-> status, retry_after |-> header, payload |-> "none"]
Exception(kind) ==
    [kind |-> kind, status |-> 0, retry_after |-> NoHeader, payload |-> "none"]
NoError == Exception("None")

Responses ==
    {Success(p) : p \in Payloads}
        \cup {HttpError(st, h) : st \in Statuses, h \in RetryAfterValues}
        \cup {Exception("OtherError")}

\* float(retry_after) on the strings above: an optional sign and decimal
\* digits give the number, anything else raises ValueError.
DigitValue ==
    ("0" :> 0) @@ ("1" :> 1) @@ ("2" :> 2) @@ ("3" :> 3) @@ ("4" :> 4) @@
    ("5" :> 5) @@ ("6" :> 6) @@ ("7" :> 7) @@ ("8" :> 8) @@ ("9" :> 9)

Unsigned(chars) == IF chars # << >> /\ chars[1] = "-" THEN Tail(chars) ELSE chars

FloatParses(chars) ==
    /\ Unsigned(chars) # << >>
    /\ \A i \in DOMAIN Unsigned(chars) : Unsigned(chars)[i] \in DOMAIN DigitValue

RECURSIVE Magnitude(_)
Magnitude(digits) ==
    IF digits = << >> THEN 0
    ELSE 10 * Magnitude(SubSeq(digits, 1, Len(digits) - 1)) + DigitValue[digits[Len(digits)]]

Float(chars) ==
    IF chars[1] = "-" THEN 0 - Magnitude(Tail(chars)) ELSE Magnitude(chars)

\* Mutation: 404 is retried like a transient error.
IsRetryableOr404(status) == status \in RETRYABLE_STATUS_CODES \cup {404}

\* status in _RETRYABLE_STATUS_CODES
IsRetryable(status) == status \in RETRYABLE_STATUS_CODES

\* GMAIL_RETRY_BASE_WAIT * (2 ** attempt)
Backoff(i) == GMAIL_RETRY_BASE_WAIT * (2 ^ i)

\* wait_time of lines 106-113: the header when it is truthy and float()
\* accepts it, else the exponential backoff.
WaitTime(error, i) ==
    LET retry_after == error.retry_after
    IN IF retry_after.present /\ retry_after.text # << >>
       THEN IF FloatParses(retry_after.text)
            THEN Float(retry_after.text)
            ELSE Backoff(i)
       ELSE Backoff(i)

\* time.sleep(secs) raises ValueError for a negative length.
SleepRaises(secs) == secs < 0

InitExecutor ==
    /\ cont = [t \in Threads |-> "idle"]
    /\ attempt = 0
    /\ last_error = NoError
    /\ attempts = 0
    /\ acquired = 0
    /\ lastResp = NoError
    /\ failures = 0
    /\ sleepCount = 0
    /\ lastSleep = 0
    /\ result = "none"
    /\ raised = NoError

\* A caller enters execute_gmail_request: _rate_limiter.acquire() (line 94),
\* then label and last_error = None (lines 96-97) and the loop starts at
\* attempt 0 when acquire() has returned.
ExecuteGmailRequest(t) ==
    /\ pc[t] \in {"idle", "returned", "raised"}
    /\ calls < MaxCalls
    /\ calls' = calls + 1
    /\ pc' = [pc EXCEPT ![t] = "lock"]
    /\ cont' = [cont EXCEPT ![t] = "loop"]
    /\ acquired' = 1
    /\ attempt' = 0
    /\ last_error' = NoError
    /\ attempts' = 0
    /\ lastResp' = NoError
    /\ failures' = 0
    /\ sleepCount' = 0
    /\ lastSleep' = 0
    /\ result' = "none"
    /\ raised' = NoError
    /\ UNCHANGED <<clock, rate, capacity, tokens, last_update, lock, now, wakeAt, seen,
                   returns, lastRelease, burstLeft, inBurst>>
    /\ UNCHANGED <<pageVars, bodyVars, otherVars>>

\* Mutation: the limiter is acquired again at the head of every retry.
LoopHeadReacquire(t) ==
    /\ pc[t] = "loop"
    /\ pc' = [pc EXCEPT ![t] = IF attempt = 0 THEN "try" ELSE "lock"]
    /\ cont' = [cont EXCEPT ![t] = "try"]
    /\ acquired' = IF attempt = 0 THEN acquired ELSE acquired + 1
    /\ UNCHANGED <<clock, rate, capacity, tokens, last_update, lock, now, wakeAt, seen,
                   calls, returns, lastRelease, burstLeft, inBurst, attempt,
                   last_error, attempts, lastResp, failures, sleepCount, lastSleep,
                   result, raised>>
    /\ UNCHANGED <<pageVars, bodyVars, otherVars>>

\* for attempt in range(GMAIL_MAX_RETRIES + 1):  and, past the loop, the
\* safety net of lines 132-134.
LoopHead(t) ==
    /\ pc[t] = "loop"
    /\ IF attempt < GMAIL_MAX_RETRIES + 1
       THEN /\ pc' = [pc EXCEPT ![t] = "try"]
            /\ UNCHANGED <<raised, attempt, last_error>>
       ELSE /\ pc' = [pc EXCEPT ![t] = "raised"]
            /\ raised' = IF last_error # NoError THEN last_error
                         ELSE Exception("RuntimeError")
            /\ attempt' = 0
            /\ last_error' = NoError
    /\ UNCHANGED <<clock, rate, capacity, tokens, last_update, lock, now, wakeAt, seen,
                   calls, returns, lastRelease, burstLeft, inBurst, cont,
                   attempts, acquired, lastResp, failures, sleepCount,
                   lastSleep, result>>
    /\ UNCHANGED <<pageVars, bodyVars, otherVars>>

\* Mutation: a failure that is not retried is swallowed and the call
\* returns nothing.
AttemptSwallows(t) ==
    /\ pc[t] = "try"
    /\ \E r \in Responses :
        /\ attempts' = attempts + 1
        /\ lastResp' = r
        /\ failures' = IF r.kind = "HttpError" /\ r.status \in RETRYABLE_STATUS_CODES
                       THEN failures + 1 ELSE failures
        /\ IF r.kind = "ok"
           THEN /\ pc' = [pc EXCEPT ![t] = "returned"]
                /\ result' = r.payload
                /\ attempt' = 0
                /\ last_error' = NoError
                /\ UNCHANGED <<sleepCount, lastSleep, raised>>
           ELSE IF r.kind = "HttpError" /\ IsRetryable(r.status)
                                        /\ attempt < GMAIL_MAX_RETRIES
           THEN IF SleepRaises(WaitTime(r, attempt))
                THEN /\ pc' = [pc EXCEPT ![t] = "raised"]
                     /\ raised' = Exception("ValueError")
                     /\ attempt' = 0
                     /\ last_error' = NoError
                     /\ UNCHANGED <<sleepCount, lastSleep, result>>
                ELSE /\ sleepCount' = sleepCount + 1
                     /\ lastSleep' = WaitTime(r, attempt)
                     /\ last_error' = r
                     /\ attempt' = attempt + 1
                     /\ pc' = [pc EXCEPT ![t] = "loop"]
                     /\ UNCHANGED <<result, raised>>
           ELSE /\ pc' = [pc EXCEPT ![t] = "returned"]
                /\ attempt' = 0
                /\ last_error' = NoError
                /\ UNCHANGED <<sleepCount, lastSleep, result, raised>>
    /\ UNCHANGED <<clock, rate, capacity, tokens, last_update, lock, now, wakeAt, seen,
                   calls, returns, lastRelease, burstLeft, inBurst, cont, acquired>>
    /\ UNCHANGED <<pageVars, bodyVars, otherVars>>

\* One iteration of the loop body, lines 100-129: the request is invoked;
\* a payload is returned; a retryable HttpError with attempts left is slept
\* on and recorded in last_error; any other failure is raised.  The locals
\* attempt and last_error end with the call.
Attempt(t) ==
    /\ pc[t] = "try"
    /\ \E r \in Responses :
        /\ attempts' = attempts + 1
        /\ lastResp' = r
        /\ failures' = IF r.kind = "HttpError" /\ r.status \in RETRYABLE_STATUS_CODES
                       THEN failures + 1 ELSE failures
        /\ IF r.kind = "ok"
           THEN /\ pc' = [pc EXCEPT ![t] = "returned"]
                /\ result' = r.payload
                /\ attempt' = 0
                /\ last_error' = NoError
                /\ UNCHANGED <<sleepCount, lastSleep, raised>>
           ELSE IF r.kind = "HttpError" /\ IsRetryable(r.status)
                                        /\ attempt < GMAIL_MAX_RETRIES
           THEN IF SleepRaises(WaitTime(r, attempt))
                THEN /\ pc' = [pc EXCEPT ![t] = "raised"]
                     /\ raised' = Exception("ValueError")
                     /\ attempt' = 0
                     /\ last_error' = NoError
                     /\ UNCHANGED <<sleepCount, lastSleep, result>>
                ELSE /\ sleepCount' = sleepCount + 1
                     /\ lastSleep' = WaitTime(r, attempt)
                     /\ last_error' = r
                     /\ attempt' = attempt + 1
                     /\ pc' = [pc EXCEPT ![t] = "loop"]
                     /\ UNCHANGED <<result, raised>>
           ELSE /\ pc' = [pc EXCEPT ![t] = "raised"]
                /\ raised' = r
                /\ attempt' = 0
                /\ last_error' = NoError
                /\ UNCHANGED <<sleepCount, lastSleep, result>>
    /\ UNCHANGED <<clock, rate, capacity, tokens, last_update, lock, now, wakeAt, seen,
                   calls, returns, lastRelease, burstLeft, inBurst, cont, acquired>>
    /\ UNCHANGED <<pageVars, bodyVars, otherVars>>

\* ------------------------------------------------- _fetch_all_messages
\* The size constants of the paginator, scaled down together: the page
\* size 500 of line 401, MAX_PAGES and MAX_MESSAGES_IN_MEMORY of config.py.
\* As in the program, a session can reach the memory ceiling before the
\* page ceiling, and a page can overshoot both the ceiling and max_results.
MaxPageSize == 2
MAX_PAGES == 3
MAX_MESSAGES_IN_MEMORY == 4

\* Values of the argument max_results: None (or 0, equally falsy), and
\* limits below, at and above the memory ceiling.
MaxResultsArgs == {None} \cup (1 .. MAX_MESSAGES_IN_MEMORY + 1)

\* Continuation tokens the server may hand out; NoToken is a response
\* without nextPageToken (or with an empty one, equally falsy).
NoToken == 0
Tokens == 1 .. MAX_PAGES

\* "maxResults": min(500, max_results or 500)
PageSize(mr) == Min(MaxPageSize, IF mr = None THEN MaxPageSize ELSE mr)

\* What execute_gmail_request does with a list request: it returns a page
\* of at most the requested number of messages with or without a
\* nextPageToken, or it ends with the exception of a terminal failure, of
\* the last retryable failure, or of time.sleep.
Page(n, tok) == [kind |-> "ok", count |-> n, nextPageToken |-> tok]

ListOutcomes(size) ==
    {Page(n, tok) : n \in 0 .. size, tok \in {NoToken} \cup Tokens}
        \cup {HttpError(404, NoHeader), HttpError(503, NoHeader),
              Exception("ValueError")}

\* result.get("messages", []): the page continues the server's order.
Messages(have, n) == [i \in 1 .. n |-> have + i]

\* Mutation: the page replaces what was gathered before.
ExtendReplaces(acc, msgs) == msgs

\* all_messages.extend(messages)
Extend(acc, msgs) == acc \o msgs

\* all_messages[:n]
Prefix(msgs, n) == SubSeq(msgs, 1, Min(n, Len(msgs)))

\* Mutation: the page ceiling is tested one page late.
PageLimitLate(count) == count > MAX_PAGES

\* Mutation: the page ceiling is never tested.
PageLimitNever(count) == FALSE

\* if page_count >= MAX_PAGES:
PageLimitReached(count) == count >= MAX_PAGES

\* Mutation: the memory ceiling is never tested.
MemoryLimitNever(n) == FALSE

\* if len(all_messages) >= MAX_MESSAGES_IN_MEMORY:
MemoryLimitReached(n) == n >= MAX_MESSAGES_IN_MEMORY

\* Mutation: max_results is compared without testing that it is set.
MaxResultsReachedUnset(mr, n) == n >= mr

\* if max_results and len(all_messages) >= max_results:
MaxResultsReached(mr, n) == mr # None /\ n >= mr

\* Mutation: a repeated token is followed like a new one.
TokenSeenNever(tok, seenSet) == FALSE

\* Mutation: a repeat is noticed only while one token has been seen.
TokenSeenWhenAlone(tok, seenSet) == seenSet = {tok}

\* if new_page_token in seen_tokens:
TokenSeen(tok, seenSet) == tok \in seenSet

InitPaginator ==
    /\ max_results = None
    /\ seen_tokens = {}
    /\ all_messages = << >>
    /\ page_token = NoToken
    /\ page_count = 0
    /\ pgPc = "idle"
    /\ fetched = << >>
    /\ fetchRaised = NoError
    /\ listCalls = 0
    /\ lastPage = NoError
    /\ repeated = FALSE
    /\ stop = "none"

\* A caller enters _fetch_all_messages: lines 386-389.
FetchAllMessages ==
    /\ pgPc = "idle"
    /\ \E mr \in MaxResultsArgs : max_results' = mr
    /\ seen_tokens' = {}
    /\ all_messages' = << >>
    /\ page_token' = NoToken
    /\ page_count' = 0
    /\ pgPc' = "loop"
    /\ UNCHANGED <<fetched, fetchRaised, listCalls, lastPage, repeated, stop>>
    /\ UNCHANGED <<limiterVars, execVars, bodyVars, otherVars>>

\* Mutation: the page ceiling ends the session with an exception.
PageLimitRaises ==
    /\ pgPc = "loop"
    /\ PageLimitReached(page_count)
    /\ pgPc' = "raised"
    /\ fetchRaised' = Exception("RuntimeError")
    /\ stop' = "max_pages"
    /\ UNCHANGED <<max_results, seen_tokens, all_messages, page_token, page_count,
                   fetched, listCalls, lastPage, repeated>>
    /\ UNCHANGED <<limiterVars, execVars, bodyVars, otherVars>>

\* Lines 392-397 and 450: the page ceiling breaks out of the loop and the
\* accumulator is returned.
PageLimit ==
    /\ pgPc = "loop"
    /\ PageLimitReached(page_count)
    /\ pgPc' = "returned"
    /\ fetched' = all_messages
    /\ stop' = "max_pages"
    /\ UNCHANGED <<max_results, seen_tokens, all_messages, page_token, page_count,
                   fetchRaised, listCalls, lastPage, repeated>>
    /\ UNCHANGED <<limiterVars, execVars, bodyVars, otherVars>>

\* One iteration of the loop past the page ceiling test, lines 399-448: the
\* list request goes through execute_gmail_request, whose exception is not
\* caught here; the page is appended and counted; then, in this order, the
\* memory ceiling, max_results, a missing token and a repeated token end the
\* session, and otherwise the token is recorded and followed.
ListPage ==
    /\ pgPc = "loop"
    /\ ~PageLimitReached(page_count)
    /\ \E r \in ListOutcomes(PageSize(max_results)) :
        /\ listCalls' = listCalls + 1
        /\ lastPage' = r
        /\ IF r.kind # "ok"
           THEN /\ pgPc' = "raised"
                /\ fetchRaised' = r
                /\ stop' = "error"
                /\ repeated' = FALSE
                /\ UNCHANGED <<seen_tokens, all_messages, page_token, page_count,
                               fetched>>
           ELSE LET acc == Extend(all_messages, Messages(Len(all_messages), r.count))
                    tok == r.nextPageToken
                IN  /\ all_messages' = acc
                    /\ page_count' = page_count + 1
                    /\ repeated' = (tok # NoToken /\ tok \in seen_tokens)
                    /\ UNCHANGED fetchRaised
                    /\ IF MemoryLimitReached(Len(acc))
                       THEN /\ pgPc' = "returned"
                            /\ fetched' = Prefix(acc, MAX_MESSAGES_IN_MEMORY)
                            /\ stop' = "memory"
                            /\ UNCHANGED <<seen_tokens, page_token>>
                       ELSE IF MaxResultsReached(max_results, Len(acc))
                       THEN /\ pgPc' = "returned"
                            /\ fetched' = Prefix(acc, max_results)
                            /\ stop' = "max_results"
                            /\ UNCHANGED <<seen_tokens, page_token>>
                       ELSE IF tok = NoToken
                       THEN /\ pgPc' = "returned"
                            /\ fetched' = acc
                            /\ stop' = "no_token"
                            /\ UNCHANGED <<seen_tokens, page_token>>
                       ELSE IF TokenSeen(tok, seen_tokens)
                       THEN /\ pgPc' = "returned"
                            /\ fetched' = acc
                            /\ stop' = "cycle"
                            /\ UNCHANGED <<seen_tokens, page_token>>
                       ELSE /\ seen_tokens' = seen_tokens \cup {tok}
                            /\ page_token' = tok
                            /\ UNCHANGED <<pgPc, fetched, stop>>
    /\ UNCHANGED max_results
    /\ UNCHANGED <<limiterVars, execVars, bodyVars, otherVars>>

\* ------------------------------------------------- _decode_bytes, base64
\* Text is a sequence of code points, bytes a sequence of 0 .. 255, and a
\* base64url string a sequence of symbols: 0 .. 63 the digits of the
\* alphabet (with - and _ for 62 and 63), Pad the sign =, Junk a character
\* outside the alphabet, NonAscii a character above U+007F.
Pad == 64
Junk == 65
NonAscii == 66

\* One code point of str.encode("utf-8").
Utf8Char(c) ==
    IF c < 128 THEN <<c>>
    ELSE IF c < 2048 THEN <<192 + (c \div 64), 128 + (c % 64)>>
    ELSE IF c < 65536
    THEN <<224 + (c \div 4096), 128 + ((c \div 64) % 64), 128 + (c % 64)>>
    ELSE <<240 + (c \div 262144), 128 + ((c \div 4096) % 64),
           128 + ((c \div 64) % 64), 128 + (c % 64)>>

\* str.encode("utf-8")
RECURSIVE Utf8Encode(_)
Utf8Encode(s) ==
    IF s = << >> THEN << >> ELSE Utf8Char(Head(s)) \o Utf8Encode(Tail(s))

\* base64.urlsafe_b64encode: three bytes make four digits, and a last
\* group of one or two bytes is padded to four symbols.
RECURSIVE B64Encode(_)
B64Encode(b) ==
    IF Len(b) = 0 THEN << >>
    ELSE IF Len(b) = 1 THEN <<b[1] \div 4, (b[1] % 4) * 16, Pad, Pad>>
    ELSE IF Len(b) = 2
    THEN <<b[1] \div 4, (b[1] % 4) * 16 + (b[2] \div 16), (b[2] % 16) * 4, Pad>>
    ELSE <<b[1] \div 4, (b[1] % 4) * 16 + (b[2] \div 16),
           (b[2] % 16) * 4 + (b[3] \div 64), b[3] % 64>>
             \o B64Encode(SubSeq(b, 4, Len(b)))

Decoded(bytes) == [ok |-> TRUE, value |-> bytes, exc |-> "None"]
Undecoded(e) == [ok |-> FALSE, value |-> << >>, exc |-> e]

\* binascii.a2b_base64, not strict: characters outside the alphabet are
\* skipped, padding that completes a group ends the input, and input that
\* ends inside a group raises binascii.Error.
RECURSIVE A2bBase64(_, _, _, _, _, _)
A2bBase64(s, i, quad_pos, leftchar, pads, out) ==
    IF i > Len(s)
    THEN IF quad_pos = 0 THEN Decoded(out) ELSE Undecoded("binascii.Error")
    ELSE LET ch == s[i]
         IN  IF ch = Pad
             THEN IF quad_pos >= 2 /\ quad_pos + pads + 1 >= 4
                  THEN Decoded(out)
                  ELSE A2bBase64(s, i + 1, quad_pos, leftchar,
                                 IF quad_pos >= 2 THEN pads + 1 ELSE pads, out)
             ELSE IF ch > 63
             THEN A2bBase64(s, i + 1, quad_pos, leftchar, pads, out)
             ELSE IF quad_pos = 0
             THEN A2bBase64(s, i + 1, 1, ch, 0, out)
             ELSE IF quad_pos = 1
             THEN A2bBase64(s, i + 1, 2, ch % 16, 0,
                            Append(out, leftchar * 4 + (ch \div 16)))
             ELSE IF quad_pos = 2
             THEN A2bBase64(s, i + 1, 3, ch % 4, 0,
                            Append(out, leftchar * 16 + (ch \div 4)))
             ELSE A2bBase64(s, i + 1, 0, 0, 0, Append(out, leftchar * 64 + ch))

\* Mutation: the bytes of a padded last group are dropped.
RECURSIVE A2bWholeGroups(_, _)
A2bWholeGroups(s, out) ==
    IF Len(s) < 4 \/ s[3] = Pad \/ s[4] = Pad THEN Decoded(out)
    ELSE A2bWholeGroups(SubSeq(s, 5, Len(s)),
                        out \o <<s[1] * 4 + (s[2] \div 16),
                                 (s[2] % 16) * 16 + (s[3] \div 4),
                                 (s[3] % 4) * 64 + s[4]>>)

UrlsafeB64decodeWholeGroups(data) == A2bWholeGroups(data.chars, << >>)

\* base64.urlsafe_b64decode(data): TypeError for what is no str, ValueError
\* for a str with a character above U+007F, else a2b_base64.
UrlsafeB64decode(data) ==
    IF data.type # "str" THEN Undecoded("TypeError")
    ELSE IF \E i \in 1 .. Len(data.chars) : data.chars[i] = NonAscii
    THEN Undecoded("ValueError")
    ELSE A2bBase64(data.chars, 1, 0, 0, 0, << >>)

Cont(b) == b \in 128 .. 191

\* Length of the well-formed UTF-8 sequence that starts the bytes, 0 if none.
Utf8Len(b) ==
    IF b[1] < 128 THEN 1
    ELSE IF b[1] \in 194 .. 223 /\ Len(b) >= 2 /\ Cont(b[2]) THEN 2
    ELSE IF /\ b[1] \in 224 .. 239 /\ Len(b) >= 3 /\ Cont(b[2]) /\ Cont(b[3])
            /\ (b[1] = 224 => b[2] >= 160)
            /\ (b[1] = 237 => b[2] <= 159)
    THEN 3
    ELSE IF /\ b[1] \in 240 .. 244 /\ Len(b) >= 4
            /\ Cont(b[2]) /\ Cont(b[3]) /\ Cont(b[4])
            /\ (b[1] = 240 => b[2] >= 144)
            /\ (b[1] = 244 => b[2] <= 143)
    THEN 4
    ELSE 0

\* The code point of a well-formed sequence of n bytes.
Utf8Point(b, n) ==
    IF n = 1 THEN b[1]
    ELSE IF n = 2 THEN (b[1] - 192) * 64 + (b[2] - 128)
    ELSE IF n = 3 THEN (b[1] - 224) * 4096 + (b[2] - 128) * 64 + (b[3] - 128)
    ELSE (b[1] - 240) * 262144 + (b[2] - 128) * 4096 + (b[3] - 128) * 64
             + (b[4] - 128)

\* data.decode("utf-8")
RECURSIVE Utf8Decode(_)
Utf8Decode(b) ==
    IF b = << >> THEN Decoded(<< >>)
    ELSE LET n == Utf8Len(b)
         IN  IF n = 0 THEN Undecoded("UnicodeDecodeError")
             ELSE LET rest == Utf8Decode(SubSeq(b, n + 1, Len(b)))
                  IN  IF rest.ok
                      THEN Decoded(<<Utf8Point(b, n)>> \o rest.value)
                      ELSE rest

\* data.decode("utf-8", errors="replace"): U+FFFD for what is ill-formed.
RECURSIVE Utf8Replace(_)
Utf8Replace(b) ==
    IF b = << >> THEN << >>
    ELSE LET n == Utf8Len(b)
         IN  IF n = 0 THEN <<65533>> \o Utf8Replace(Tail(b))
             ELSE <<Utf8Point(b, n)>> \o Utf8Replace(SubSeq(b, n + 1, Len(b)))

\* The code points windows-1252 gives the bytes 0x80 .. 0x9F; 0 marks the
\* five bytes it leaves undefined.
Cp1252High ==
    <<8364, 0, 8218, 402, 8222, 8230, 8224, 8225, 710, 8240, 352, 8249, 338, 0,
      381, 0, 0, 8216, 8217, 8220, 8221, 8226, 8211, 8212, 732, 8482, 353, 8250,
      339, 0, 382, 376>>

Cp1252Point(byte) == IF byte \in 128 .. 159 THEN Cp1252High[byte - 127] ELSE byte

\* data.decode("windows-1252")
Cp1252Decode(b) ==
    IF \E i \in 1 .. Len(b) : Cp1252Point(b[i]) = 0
    THEN Undecoded("UnicodeDecodeError")
    ELSE Decoded([i \in 1 .. Len(b) |-> Cp1252Point(b[i])])

\* data.decode("iso-8859-1")
Latin1Decode(b) == Decoded(b)

\* data.decode(encoding)
Decode(encoding, b) ==
    CASE encoding = "utf-8" -> Utf8Decode(b)
      [] encoding = "windows-1252" -> Cp1252Decode(b)
      [] encoding = "iso-8859-1" -> Latin1Decode(b)

\* Mutation: ISO-8859-1, which accepts every byte, is tried before
\* windows-1252.
EncodingsLatinFirst == <<"utf-8", "iso-8859-1", "windows-1252">>

\* for encoding in ("utf-8", "windows-1252", "iso-8859-1"):
Encodings == <<"utf-8", "windows-1252", "iso-8859-1">>

\* _decode_bytes: the first encoding that decodes, else UTF-8 with
\* replacement.
RECURSIVE TryEncodings(_, _)
TryEncodings(encodings, b) ==
    IF encodings = << >> THEN Utf8Replace(b)
    ELSE IF Decode(Head(encodings), b).ok THEN Decode(Head(encodings), b).value
    ELSE TryEncodings(Tail(encodings), b)

DecodeBytes(b) == TryEncodings(Encodings, b)

\* ------------------------------------------------------------ _parse_body
\* MAX_MIME_DEPTH of config.py, scaled down.
MAX_MIME_DEPTH == 2

\* Longest text a part of the round-trip documents carries.
MaxTextLen == 1

\* A JSON value of a message document: a key that is missing, null, a
\* string, or a number where a string belongs.
JAbsent == [type |-> "absent", chars |-> << >>]
JNull == [type |-> "null", chars |-> << >>]
JStr(chars) == [type |-> "str", chars |-> chars]
JInt == [type |-> "int", chars |-> << >>]

\* payload["body"]: missing, null, or a dict with or without "data".
BodyAbsent == [type |-> "absent", data |-> JAbsent]
BodyNull == [type |-> "null", data |-> JAbsent]
Body(data) == [type |-> "dict", data |-> data]

\* payload["parts"]: missing, null, or a list of documents.
PartsAbsent == [type |-> "absent", items |-> << >>]
PartsNull == [type |-> "null", items |-> << >>]
Parts(items) == [type |-> "list", items |-> items]

\* payload["mimeType"]: missing, null, or a media type.
MimeAbsent == "(absent)"
MimeNull == "(null)"

\* A message document (payload or part).
Node(mime, body, parts) == [mimeType |-> mime, body |-> body, parts |-> parts]

\* A part holding base64url(utf8(text)), and a composite of parts.
DataOf(text) == JStr(B64Encode(Utf8Encode(text)))
TextPart(text) == Node("text/plain", Body(DataOf(text)), PartsAbsent)
HtmlPart(text) == Node("text/html", Body(DataOf(text)), PartsAbsent)
Composite(items) == Node("multipart/alternative", Body(JAbsent), Parts(items))

\* mime_type.lower(), on the media types of the model.
Lower(mime) == IF mime = "TEXT/HTML" THEN "text/html" ELSE mime

\* Mutation: only the media type text/html counts as HTML.
ContainsHtmlExact(mime) == mime = "text/html"

\* "html" in mime, on the lower-case media types of the model.
ContainsHtml(mime) == mime \in {"text/html", "application/xhtml+xml"}

\* The string "(parsing error)".
ParsingError == <<-1>>

\* What a call of _parse_body produces: a pair, or an exception; deepest is
\* the largest depth a call of the recursion ran with.
Returned(text, html, deepest) ==
    [kind |-> "ok", text |-> text, html |-> html, deepest |-> deepest,
     exc |-> "None"]
Raised(e, deepest) ==
    [kind |-> "raise", text |-> << >>, html |-> << >>, deepest |-> deepest,
     exc |-> e]
NotParsed ==
    [kind |-> "none", text |-> << >>, html |-> << >>, deepest |-> 0, exc |-> "None"]

\* Mutation: the except clause names KeyError alone.
CaughtKeyErrorOnly(e) == e = "KeyError"

\* except (KeyError, ValueError, UnicodeDecodeError, binascii.Error):
\* the last two are ValueErrors; AttributeError and TypeError are not.
Caught(e) == e \in {"KeyError", "ValueError", "UnicodeDecodeError", "binascii.Error"}

\* Truth value of payload["body"].get("data").
Truthy(data) == data.type = "int" \/ (data.type = "str" /\ data.chars # << >>)

\* Mutation: the depth is never tested.
DepthExceededNever(depth) == FALSE

\* if depth > MAX_MIME_DEPTH:
DepthExceeded(depth) == depth > MAX_MIME_DEPTH

Max(a, b) == IF a > b THEN a ELSE b

\* Lines 521-530: the document carries an inline payload.
Inline(p, depth) ==
    LET data == UrlsafeB64decode(p.body.data)
        mime_type == IF p.mimeType = MimeAbsent THEN "text/plain" ELSE p.mimeType
    IN  IF ~data.ok THEN Raised(data.exc, depth)
        ELSE IF mime_type = MimeNull THEN Raised("AttributeError", depth)
        ELSE IF ContainsHtml(Lower(mime_type))
        THEN Returned(<< >>, DecodeBytes(data.value), depth)
        ELSE Returned(DecodeBytes(data.value), << >>, depth)

RECURSIVE ParseBody(_, _)
RECURSIVE ForParts(_, _, _, _, _, _)

\* Lines 533-547: the loop over the parts from the i-th on, with the values
\* found so far.  A text/plain or text/html part with "data" in its body
\* assigns its slot; any other part with a "parts" key is recursed into and
\* fills the slots still empty.
ForParts(items, i, text_body, html_body, depth, deepest) ==
    IF i > Len(items) THEN Returned(text_body, html_body, deepest)
    ELSE
    LET part == items[i]
        mime_type == IF part.mimeType = MimeAbsent THEN "" ELSE part.mimeType
        isText == mime_type \in {"text/plain", "text/html"}
        data == UrlsafeB64decode(part.body.data)
        nested == ParseBody(part, depth + 1)
    IN  IF isText /\ part.body.type = "null" THEN Raised("TypeError", deepest)
        ELSE IF isText /\ part.body.type = "dict" /\ part.body.data.type # "absent"
        THEN IF ~data.ok THEN Raised(data.exc, deepest)
             ELSE IF mime_type = "text/plain"
             THEN ForParts(items, i + 1, DecodeBytes(data.value), html_body,
                           depth, deepest)
             ELSE ForParts(items, i + 1, text_body, DecodeBytes(data.value),
                           depth, deepest)
        ELSE IF part.parts.type # "absent"
        THEN IF nested.kind = "raise"
             THEN Raised(nested.exc, Max(deepest, nested.deepest))
             ELSE ForParts(items, i + 1,
                           IF text_body # << >> THEN text_body ELSE nested.text,
                           IF html_body # << >> THEN html_body ELSE nested.html,
                           depth, Max(deepest, nested.deepest))
        ELSE ForParts(items, i + 1, text_body, html_body, depth, deepest)

\* Lines 520-547, the body of the try: statement.
TryBody(p, depth) ==
    IF p.body.type = "null" THEN Raised("AttributeError", depth)
    ELSE IF p.body.type = "dict" /\ Truthy(p.body.data) THEN Inline(p, depth)
    ELSE IF p.parts.type = "null" THEN Raised("TypeError", depth)
    ELSE ForParts(p.parts.items, 1, << >>, << >>, depth, depth)

\* _parse_body(payload, depth): the depth test, then the try: statement,
\* whose except clause turns the exceptions it names into the pair of
\* "(parsing error)" and lets every other one through.
ParseBody(p, depth) ==
    IF DepthExceeded(depth) THEN Returned(<< >>, << >>, depth)
    ELSE LET r == TryBody(p, depth)
         IN  IF r.kind = "raise" /\ Caught(r.exc)
             THEN Returned(ParsingError, ParsingError, r.deepest)
             ELSE r

\* ------------------------------------------------ documents of the model
\* Code points of the texts: one, two and three bytes of UTF-8, which
\* base64 pads with ==, = and nothing.
CodePoints == {65, 233, 8364}

Texts == UNION {[1 .. n -> CodePoints] : n \in 0 .. MaxTextLen}

\* A composite whose two parts carry a text and an HTML rendering.
TwoPartDocument(t, h) == Composite(<<TextPart(t), HtmlPart(h)>>)

RoundTripDocuments == {TwoPartDocument(t, h) : t, h \in Texts}

\* Well-formed documents up to two levels of composites, over four parts.
SampleParts ==
    {TextPart(<<65>>), TextPart(<<233>>), HtmlPart(<<65>>), HtmlPart(<<8364>>)}

UpToTwo(S) == {<< >>} \cup {<<a>> : a \in S} \cup {<<a, b>> : a, b \in S}

FlatDocuments == {Composite(items) : items \in UpToTwo(SampleParts)}

TreeDocuments ==
    {Composite(items) : items \in UpToTwo(SampleParts \cup FlatDocuments)}

\* Malformed nodes: every field missing, null or of the wrong type, data
\* that is empty, badly padded, interrupted by a character outside the
\* alphabet, not ASCII, or bytes that are not UTF-8 (0xE9) nor windows-1252
\* (0x81); alone, as the only part of a composite, and after a well-formed
\* part.
MalformedData ==
    {JNull, JInt, JStr(<< >>), JStr(<<16, 16>>), JStr(<<16, Junk, 16, Pad, Pad>>),
     JStr(<<NonAscii>>), JStr(B64Encode(<<233>>)), JStr(B64Encode(<<129>>))}

MalformedNodes ==
    {Node(mime, body, parts) :
        mime \in {MimeAbsent, MimeNull, "text/plain", "text/html"},
        body \in {BodyAbsent, BodyNull, Body(JAbsent)}
                     \cup {Body(d) : d \in MalformedData},
        parts \in {PartsAbsent, PartsNull, Parts(<< >>)}}

MalformedDocuments ==
    MalformedNodes
        \cup {Composite(<<m>>) : m \in MalformedNodes}
        \cup {Composite(<<TextPart(<<65>>), m>>) : m \in MalformedNodes}

\* A chain of composites at depths d .. last, each the last part of the one
\* above, with a text part in the composite at depth i and an HTML part in
\* the one at depth j.
RECURSIVE Chain(_, _, _, _)
Chain(d, last, i, j) ==
    Composite((IF d = i THEN <<TextPart(<<65>>)>> ELSE << >>)
                  \o (IF d = j THEN <<HtmlPart(<<233>>)>> ELSE << >>)
                  \o (IF d < last THEN <<Chain(d + 1, last, i, j)>> ELSE << >>))

\* Documents nested MAX_MIME_DEPTH + 5 deep.
DeepLevels == 0 .. MAX_MIME_DEPTH + 5

DeepDocument(i, j) == Chain(0, MAX_MIME_DEPTH + 5, i, j)

DeepDocuments == {DeepDocument(i, j) : i, j \in DeepLevels}

\* Documents that carry an inline payload themselves, under media types
\* with and without "html" in any case or none at all, with and without
\* child parts.
InlineMimes ==
    {MimeAbsent, "text/plain", "text/html", "TEXT/HTML", "application/xhtml+xml",
     "multipart/alternative"}

InlineParts ==
    {PartsAbsent, Parts(<< >>), Parts(<<TextPart(<<65>>)>>),
     Parts(<<HtmlPart(<<65>>), TextPart(<<233>>)>>)}

InlineDocument(mime, text, parts) == Node(mime, Body(DataOf(text)), parts)

InlineDocuments ==
    {InlineDocument(mime, t, parts) :
        mime \in InlineMimes, t \in Texts \ {<< >>}, parts \in InlineParts}

Documents ==
    RoundTripDocuments \cup TreeDocuments \cup MalformedDocuments \cup DeepDocuments
        \cup InlineDocuments

\* The document of a part-less, body-less payload: message.get("payload", {}).
EmptyDocument == Node(MimeAbsent, BodyAbsent, PartsAbsent)

InitBodyIdle ==
    /\ document = EmptyDocument
    /\ parsed = NotParsed

\* _parse_body(payload) is called on the document.
ParseBodyCall ==
    /\ parsed.kind = "none"
    /\ parsed' = ParseBody(document, 0)
    /\ UNCHANGED document
    /\ UNCHANGED <<limiterVars, execVars, pageVars, otherVars>>

\* --------------------------------------------------------- _decode_bytes
\* Longest byte string handed to _decode_bytes.
MaxBytesLen == 2

\* Bytes of the model: ASCII, the bytes of the UTF-8 forms of U+00E9 and
\* U+20AC, 0x80 and 0xE9 (windows-1252 only) and 0x81 (ISO-8859-1 only).
SampleBytes == {65, 128, 129, 130, 169, 172, 195, 226, 233}

ByteStrings == UNION {[1 .. n -> SampleBytes] : n \in 0 .. MaxBytesLen}

NotDecoded == [done |-> FALSE, text |-> << >>]

InitDecodeIdle ==
    /\ rawBytes = << >>
    /\ decodedText = NotDecoded

\* _decode_bytes(data) is called on the bytes.
DecodeBytesCall ==
    /\ ~decodedText.done
    /\ decodedText' = [done |-> TRUE, text |-> DecodeBytes(rawBytes)]
    /\ UNCHANGED rawBytes
    /\ UNCHANGED outsideDecode

\* ------------------------- fetch_message_details, fetch_message_full_detail
\* Longest list of message stubs handed to fetch_message_details.
MaxBatch == 3

\* How execute_gmail_request ends a get request: with the message, with the
\* HttpError of a terminal failure or of the last retryable one, or with the
\* ValueError of time.sleep.
DetailOutcomes ==
    {Success("p"), HttpError(404, NoHeader), HttpError(503, NoHeader),
     Exception("ValueError")}

\* The ids, in order, of the messages whose request returned.
RECURSIVE Fetched(_, _)
Fetched(ids, ends) ==
    IF ends = << >> THEN << >>
    ELSE IF Head(ends).kind = "ok" THEN <<Head(ids)>> \o Fetched(Tail(ids), Tail(ends))
    ELSE Fetched(Tail(ids), Tail(ends))

InitBatch ==
    /\ messages = << >>
    /\ batchPos = 1
    /\ message_data = << >>
    /\ outcomes = << >>
    /\ batchPc = "idle"
    /\ batchRaised = NoError
    /\ fullPc = "idle"
    /\ fullOutcome = NoError
    /\ fullEnded = NoError

\* A caller enters fetch_message_details with a list of stubs: line 55.
FetchMessageDetails ==
    /\ batchPc = "idle"
    /\ \E n \in 0 .. MaxBatch : messages' = [i \in 1 .. n |-> i]
    /\ batchPos' = 1
    /\ message_data' = << >>
    /\ outcomes' = << >>
    /\ batchPc' = "loop"
    /\ UNCHANGED <<batchRaised, fullPc, fullOutcome, fullEnded>>
    /\ UNCHANGED outsideBatch

\* One iteration of the for loop, lines 56-91: the request goes through
\* execute_gmail_request; an HttpError skips the message, any other
\* exception leaves the function, and a message is appended as an entry.
FetchDetail ==
    /\ batchPc = "loop"
    /\ batchPos <= Len(messages)
    /\ \E r \in DetailOutcomes :
        /\ outcomes' = Append(outcomes, r)
        /\ IF r.kind = "ok"
           THEN /\ message_data' = Append(message_data, messages[batchPos])
                /\ batchPos' = batchPos + 1
                /\ UNCHANGED <<batchPc, batchRaised>>
           ELSE IF r.kind = "HttpError"
           THEN /\ batchPos' = batchPos + 1
                /\ UNCHANGED <<message_data, batchPc, batchRaised>>
           ELSE /\ batchPc' = "raised"
                /\ batchRaised' = r
                /\ UNCHANGED <<message_data, batchPos>>
    /\ UNCHANGED <<messages, fullPc, fullOutcome, fullEnded>>
    /\ UNCHANGED outsideBatch

\* return message_data, line 93.
ReturnDetails ==
    /\ batchPc = "loop"
    /\ batchPos > Len(messages)
    /\ batchPc' = "returned"
    /\ UNCHANGED <<messages, batchPos, message_data, outcomes, batchRaised,
                   fullPc, fullOutcome, fullEnded>>
    /\ UNCHANGED outsideBatch

\* fetch_message_full_detail, lines 106-113: the value or the exception of
\* execute_gmail_request is the caller's.
FetchMessageFullDetail ==
    /\ fullPc = "idle"
    /\ \E r \in DetailOutcomes :
        /\ fullOutcome' = r
        /\ fullEnded' = r
        /\ fullPc' = IF r.kind = "ok" THEN "returned" ELSE "raised"
    /\ UNCHANGED <<messages, batchPos, message_data, outcomes, batchPc, batchRaised>>
    /\ UNCHANGED outsideBatch

\* --------------------------------------------- commands, tools, API methods
\* Commands and tools run in one behaviour.
MaxOps == 2

\* --command choices of __main__.py that need the service, and the tools of
\* mcp_server.py.
Commands == {"test", "list", "search", "read", "export", "labels", "threads"}
Tools ==
    {"gmail_list", "gmail_search", "gmail_read", "gmail_labels", "gmail_thread",
     "gmail_export"}

Call(resource, method) == [resource |-> resource, method |-> method]

\* SCOPES of auth.py.
SCOPES == {"https://www.googleapis.com/auth/gmail.readonly"}

\* The methods of the Gmail API that change a mailbox (MUTATING_GMAIL_METHODS
\* of the guardrail test; import_ is the client's name of the import method).
MutatingMethods ==
    {"send", "modify", "trash", "untrash", "delete", "insert", "import_",
     "batchModify", "batchDelete"}

\* Mutation: reading a message also removes its UNREAD label.
ApiCallsReadModifies(op) ==
    IF op \in {"read", "gmail_read"}
    THEN {Call("messages", "get"), Call("messages", "modify")}
    ELSE {Call("messages", "list"), Call("messages", "get")}

\* The API methods a command or tool can reach: getProfile (__main__.py
\* 166); _fetch_all_messages, messages.list (reports.py 411);
\* fetch_message_details and fetch_message_full_detail and the export loop,
\* messages.get (61-63, 108-110, 336-338); fetch_thread_details,
\* threads.get (128-130); fetch_labels, labels.list (147-149).
ApiCalls(op) ==
    IF op = "test" THEN {Call("users", "getProfile")}
    ELSE IF op \in {"read", "gmail_read"} THEN {Call("messages", "get")}
    ELSE IF op \in {"labels", "gmail_labels"} THEN {Call("labels", "list")}
    ELSE IF op \in {"threads", "gmail_thread"} THEN {Call("threads", "get")}
    ELSE {Call("messages", "list"), Call("messages", "get")}

InitApi ==
    /\ opLog = << >>
    /\ apiCalled = {}
    /\ scopesUsed = {}

\* The auth command: run_oauth_flow asks for SCOPES and calls no API method.
RunOauthFlow ==
    /\ Len(opLog) < MaxOps
    /\ opLog' = Append(opLog, "auth")
    /\ scopesUsed' = scopesUsed \cup SCOPES
    /\ UNCHANGED apiCalled
    /\ UNCHANGED outsideApi

\* Any other command: get_gmail_service builds credentials with SCOPES, then
\* the command calls any of the methods it can reach.
RunCommand ==
    /\ Len(opLog) < MaxOps
    /\ \E op \in Commands : \E called \in SUBSET ApiCalls(op) :
        /\ opLog' = Append(opLog, op)
        /\ apiCalled' = apiCalled \cup called
    /\ scopesUsed' = scopesUsed \cup SCOPES
    /\ UNCHANGED outsideApi

\* A tool call: call_tool gets the service the same way and dispatches.
CallTool ==
    /\ Len(opLog) < MaxOps
    /\ \E op \in Tools : \E called \in SUBSET ApiCalls(op) :
        /\ opLog' = Append(opLog, op)
        /\ apiCalled' = apiCalled \cup called
    /\ scopesUsed' = scopesUsed \cup SCOPES
    /\ UNCHANGED outsideApi

\* ------------------------------------------------ concurrent pagination
\* Threads that each run _fetch_all_messages.
Sessions == {1, 2}

\* The max_results arguments of the sessions: the first lists everything,
\* the second asks for a bounded number of messages.
SessionMaxResults(s) == IF s = 1 THEN None ELSE MaxPageSize + 1

\* What a session's list request can end with: a page that is empty, has
\* one message or is full, and whose token is absent, new to the session
\* (the least such stands for all) or the one the request carried; or a
\* terminal failure.
SessionOutcomes(size, seenSet, sentToken) ==
    LET new == {t \in Tokens \ seenSet : \A u \in Tokens \ seenSet : t <= u}
    IN  {Page(n, tok) : n \in {0, 1, size}, tok \in ({NoToken, sentToken} \cup new)}
            \cup {HttpError(503, NoHeader)}

\* The locals of one call: seen_tokens, all_messages, page_token, page_count,
\* and how the call stands.
Locals(mr, pcOf) ==
    [max_results |-> mr, seen_tokens |-> {}, all_messages |-> << >>,
     page_token |-> NoToken, page_count |-> 0, pc |-> pcOf, result |-> << >>]

NotStarted == Locals(None, "idle")

Return(st, msgs) == [st EXCEPT !.pc = "returned", !.result = msgs]

\* Mutation: the seen tokens are one set shared by all sessions.
SeenByAny(s, ss) == UNION {ss[x].seen_tokens : x \in Sessions}

\* seen_tokens is a local of the call.
SeenBy(s, ss) == ss[s].seen_tokens

\* The body of `while True:` after the page-limit test, for the locals st,
\* the seen tokens seenSet and the outcome r of execute_gmail_request.
PageStep(st, seenSet, r) ==
    IF r.kind # "ok" THEN [st EXCEPT !.pc = "raised"]
    ELSE LET acc == Extend(st.all_messages, Messages(Len(st.all_messages), r.count))
             tok == r.nextPageToken
             got == [st EXCEPT !.all_messages = acc, !.page_count = @ + 1]
         IN  IF MemoryLimitReached(Len(acc))
             THEN Return(got, Prefix(acc, MAX_MESSAGES_IN_MEMORY))
             ELSE IF MaxResultsReached(st.max_results, Len(acc))
             THEN Return(got, Prefix(acc, st.max_results))
             ELSE IF tok = NoToken THEN Return(got, acc)
             ELSE IF TokenSeen(tok, seenSet) THEN Return(got, acc)
             ELSE [got EXCEPT !.seen_tokens = seenSet \cup {tok}, !.page_token = tok]

\* One call run alone against the responses rs, from the i-th on.
RECURSIVE RunAlone(_, _, _)
RunAlone(st, rs, i) ==
    IF st.pc # "loop" THEN st
    ELSE IF PageLimitReached(st.page_count) THEN Return(st, st.all_messages)
    ELSE IF i > Len(rs) THEN st
    ELSE RunAlone(PageStep(st, st.seen_tokens, rs[i]), rs, i + 1)

InitSessions ==
    /\ session = [s \in Sessions |-> NotStarted]
    /\ script = [s \in Sessions |-> << >>]
    /\ sentTokens = [s \in Sessions |-> << >>]

\* A thread calls _fetch_all_messages.
SessionStart(s) ==
    /\ session[s].pc = "idle"
    /\ session' = [session EXCEPT ![s] = Locals(SessionMaxResults(s), "loop")]
    /\ UNCHANGED <<script, sentTokens>>
    /\ UNCHANGED outsideSession

\* The page-limit test ends the session's loop.
SessionPageLimit(s) ==
    /\ session[s].pc = "loop"
    /\ PageLimitReached(session[s].page_count)
    /\ session' = [session EXCEPT ![s] = Return(@, @.all_messages)]
    /\ UNCHANGED <<script, sentTokens>>
    /\ UNCHANGED outsideSession

\* Mutation: every request is sent without a page token.
PageTokenNever(st) == NoToken

\* if page_token: params["pageToken"] = page_token
PageTokenParam(st) == st.page_token

\* Past the page-limit test the session's thread sends its list request and
\* blocks in execute_gmail_request.
SessionRequest(s) ==
    /\ session[s].pc = "loop"
    /\ ~PageLimitReached(session[s].page_count)
    /\ session' = [session EXCEPT ![s].pc = "list"]
    /\ sentTokens' = [sentTokens EXCEPT ![s] = Append(@, PageTokenParam(session[s]))]
    /\ UNCHANGED script
    /\ UNCHANGED outsideSession

\* execute_gmail_request ends, and the rest of the iteration follows.
SessionResponse(s) ==
    /\ session[s].pc = "list"
    /\ \E r \in SessionOutcomes(PageSize(session[s].max_results),
                                 session[s].seen_tokens, session[s].page_token) :
        /\ session' = [session EXCEPT
                          ![s] = PageStep([@ EXCEPT !.pc = "loop"], SeenBy(s, session), r)]
        /\ script' = [script EXCEPT ![s] = Append(@, r)]
    /\ UNCHANGED sentTokens
    /\ UNCHANGED outsideSession

\* The session whose list requests the executor's thread carries.
Lister == 1

\* The pages a list request that succeeds can return to the session.
PagesOf(ends) == {r \in ends : r.kind = "ok"}

\* execute_gmail_request(...) at lines 409-413: the session's thread enters
\* the executor; acquire() has returned and the attempts start.
ListExecute ==
    /\ session[Lister].pc = "loop"
    /\ ~PageLimitReached(session[Lister].page_count)
    /\ pc[Executor] \in {"idle", "returned", "raised"}
    /\ session' = [session EXCEPT ![Lister].pc = "list"]
    /\ sentTokens' = [sentTokens EXCEPT ![Lister] = Append(@, PageTokenParam(session[Lister]))]
    /\ pc' = [pc EXCEPT ![Executor] = "loop"]
    /\ acquired' = 1
    /\ attempt' = 0
    /\ last_error' = NoError
    /\ attempts' = 0
    /\ lastResp' = NoError
    /\ failures' = 0
    /\ sleepCount' = 0
    /\ lastSleep' = 0
    /\ result' = "none"
    /\ raised' = NoError
    /\ UNCHANGED <<clock, rate, capacity, tokens, last_update, lock, now, wakeAt, seen,
                   calls, returns, lastRelease, burstLeft, inBurst, cont>>
    /\ UNCHANGED script
    /\ UNCHANGED <<pageVars, bodyVars, decodeVars, batchVars, apiVars, configVars, authVars>>

\* The executor has ended: its exception leaves _fetch_all_messages, or
\* the page it returned goes through the rest of the iteration.
ListReturn ==
    /\ session[Lister].pc = "list"
    /\ pc[Executor] \in {"returned", "raised"}
    /\ \E r \in IF pc[Executor] = "raised" THEN {raised}
                ELSE PagesOf(SessionOutcomes(PageSize(session[Lister].max_results),
                                             session[Lister].seen_tokens,
                                             session[Lister].page_token)) :
        /\ session' = [session EXCEPT
                          ![Lister] = PageStep([@ EXCEPT !.pc = "loop"],
                                               SeenBy(Lister, session), r)]
        /\ script' = [script EXCEPT ![Lister] = Append(@, r)]
    /\ pc' = [pc EXCEPT ![Executor] = "idle"]
    /\ UNCHANGED sentTokens
    /\ UNCHANGED <<clock, rate, capacity, tokens, last_update, lock, now, wakeAt, seen,
                   calls, returns, lastRelease, burstLeft, inBurst, cont, execVars>>
    /\ UNCHANGED <<pageVars, bodyVars, decodeVars, batchVars, apiVars, configVars, authVars>>

\* ------------------------------------------------------------ load_config
\* A variable of the environment: unset (os.getenv gives None) or a string,
\* kept as a sequence of characters (the domain suffix's three labels count
\* as one character each).
Unset == [set |-> FALSE, text |-> << >>]
Value(chars) == [set |-> TRUE, text |-> chars]

\* The variables load_config reads.
ConfigNames == {"GMAIL_CLIENT_ID", "GMAIL_CLIENT_SECRET", "GMAIL_REFRESH_TOKEN"}

\* ".apps.googleusercontent.com"
ClientIdSuffix == <<".apps", ".googleusercontent", ".com">>

\* str.endswith
EndsWith(s, suffix) ==
    /\ Len(s) >= Len(suffix)
    /\ SubSeq(s, Len(s) - Len(suffix) + 1, Len(s)) = suffix

\* Client IDs: well formed, the bare suffix, no suffix, the suffix in front,
\* a cut suffix, and the empty string.
ClientIds ==
    {<<"1">> \o ClientIdSuffix, ClientIdSuffix, <<"1">>, ClientIdSuffix \o <<"1">>,
     <<"1", ".apps", ".googleusercontent">>, << >>}

\* What ~/.env can assign and what the process environment can hold before
\* the call.
FileSecrets == {Unset, Value(<< >>), Value(<<"s">>)}
FileTokens == {Unset, Value(<< >>), Value(<<"r">>)}
EnvFiles ==
    {[exists |-> e,
      assigns |-> [v \in ConfigNames |->
                      IF v = "GMAIL_CLIENT_ID" THEN id
                      ELSE IF v = "GMAIL_CLIENT_SECRET" THEN sec ELSE tok]] :
        e \in BOOLEAN, id \in {Unset} \cup {Value(c) : c \in ClientIds},
        sec \in FileSecrets, tok \in FileTokens}
Environs ==
    {[v \in ConfigNames |->
         IF v = "GMAIL_CLIENT_ID" THEN id
         ELSE IF v = "GMAIL_CLIENT_SECRET" THEN sec ELSE Unset] :
        id \in {Unset, Value(<<"1">>), Value(<<"2">> \o ClientIdSuffix)},
        sec \in {Unset, Value(<<"t">>)}}

\* load_dotenv(dotenv_path=env_path, override=True): what the file assigns
\* replaces what the environment held.
LoadDotenv(assigns, env) ==
    [v \in DOMAIN env |-> IF assigns[v].set THEN assigns[v] ELSE env[v]]

\* `not os.getenv(v)`: unset or empty.
Falsy(x) == ~x.set \/ x.text = << >>

\* missing = [v for v in required_vars if not os.getenv(v)]
Missing(env) ==
    SelectSeq(<<"GMAIL_CLIENT_ID", "GMAIL_CLIENT_SECRET">>, LAMBDA v : Falsy(env[v]))

NotLoaded == [kind |-> "(none)"]
ConfigRaised(e, why, names) == [kind |-> e, why |-> why, names |-> names]
ConfigReturned(env) ==
    [kind |-> "returned", client_id |-> env["GMAIL_CLIENT_ID"],
     client_secret |-> env["GMAIL_CLIENT_SECRET"],
     refresh_token |-> env["GMAIL_REFRESH_TOKEN"]]

\* Mutation: the format of the client ID is tested before the required
\* variables.
LoadConfigFormatFirst(exists, env) ==
    IF ~exists THEN ConfigRaised("FileNotFoundError", "not found", << >>)
    ELSE IF ~Falsy(env["GMAIL_CLIENT_ID"])
            /\ ~EndsWith(env["GMAIL_CLIENT_ID"].text, ClientIdSuffix)
    THEN ConfigRaised("EnvironmentError", "malformed", <<"GMAIL_CLIENT_ID">>)
    ELSE IF Missing(env) # << >>
    THEN ConfigRaised("EnvironmentError", "missing", Missing(env))
    ELSE ConfigReturned(env)

\* load_config, for the environment env as load_dotenv left it.
LoadConfig(exists, env) ==
    IF ~exists THEN ConfigRaised("FileNotFoundError", "not found", << >>)
    ELSE IF Missing(env) # << >>
    THEN ConfigRaised("EnvironmentError", "missing", Missing(env))
    ELSE IF ~Falsy(env["GMAIL_CLIENT_ID"])
            /\ ~EndsWith(env["GMAIL_CLIENT_ID"].text, ClientIdSuffix)
    THEN ConfigRaised("EnvironmentError", "malformed", <<"GMAIL_CLIENT_ID">>)
    ELSE ConfigReturned(env)

InitConfigIdle ==
    /\ envFile = [exists |-> FALSE, assigns |-> [v \in ConfigNames |-> Unset]]
    /\ environ = [v \in ConfigNames |-> Unset]
    /\ config = NotLoaded

\* load_config(): the file is loaded into the environment only if it exists.
LoadConfigCall ==
    /\ config = NotLoaded
    /\ LET env == IF envFile.exists THEN LoadDotenv(envFile.assigns, environ)
                  ELSE environ
       IN  /\ environ' = env
           /\ config' = LoadConfig(envFile.exists, env)
    /\ UNCHANGED envFile
    /\ UNCHANGED outsideConfig

\* ------------------------------------------- _append_refresh_token_to_env
\* Concurrent `gmail-reader auth` processes; process p saves the token p.
Processes == {1, 2}
NoProcess == 0

\* Lines of ~/.env: an assignment of the token, an assignment of something
\* else, an empty line, and a line that mentions GMAIL_REFRESH_TOKEN without
\* starting with "GMAIL_REFRESH_TOKEN=" (a comment, an `export`).
TokenLine(tok) == [kind |-> "GMAIL_REFRESH_TOKEN=", token |-> tok]
OtherLine == [kind |-> "GMAIL_CLIENT_ID=", token |-> 0]
EmptyLine == [kind |-> "", token |-> 0]
MentionLine == [kind |-> "# GMAIL_REFRESH_TOKEN", token |-> 0]

\* The files a call can find.
StartFiles == {<<OtherLine>>, <<OtherLine, TokenLine(9)>>, <<MentionLine>>, << >>}

\* if "GMAIL_REFRESH_TOKEN" in content:
MentionsToken(lines) ==
    \E i \in 1 .. Len(lines) : lines[i].kind \in {"GMAIL_REFRESH_TOKEN=", "# GMAIL_REFRESH_TOKEN"}

\* The loop over content.splitlines(): lines that start with
\* "GMAIL_REFRESH_TOKEN=" are replaced.
Updated(lines, tok) ==
    [i \in 1 .. Len(lines) |->
        IF lines[i].kind = "GMAIL_REFRESH_TOKEN=" THEN TokenLine(tok) ELSE lines[i]]

\* f"\nGMAIL_REFRESH_TOKEN={refresh_token}\n" at the end of a file whose
\* last line is terminated.
Appended(tok) == <<EmptyLine, TokenLine(tok)>>

InitAuthIdle ==
    /\ envLines = <<OtherLine>>
    /\ startLines = <<OtherLine>>
    /\ flock = NoProcess
    /\ authPc = [p \in Processes |-> "idle"]
    /\ content = [p \in Processes |-> << >>]
    /\ buffered = [p \in Processes |-> << >>]
    /\ lockOrder = << >>

\* with env_path.open("a+") as lock_file:
OpenEnv(p) ==
    /\ authPc[p] = "idle"
    /\ authPc' = [authPc EXCEPT ![p] = "flock"]
    /\ UNCHANGED <<envLines, startLines, flock, content, buffered, lockOrder>>
    /\ UNCHANGED outsideAuth

\* fcntl.flock(lock_file, fcntl.LOCK_EX) returns once no other process
\* holds the lock.
FlockEx(p) ==
    /\ authPc[p] = "flock"
    /\ flock = NoProcess
    /\ flock' = p
    /\ lockOrder' = Append(lockOrder, p)
    /\ authPc' = [authPc EXCEPT ![p] = "read"]
    /\ UNCHANGED <<envLines, startLines, content, buffered>>
    /\ UNCHANGED outsideAuth

\* lock_file.seek(0); content = lock_file.read()
ReadEnv(p) ==
    /\ authPc[p] = "read"
    /\ content' = [content EXCEPT ![p] = envLines]
    /\ authPc' = [authPc EXCEPT ![p] = "write"]
    /\ UNCHANGED <<envLines, startLines, flock, buffered, lockOrder>>
    /\ UNCHANGED outsideAuth

\* The two branches: truncate() empties the file at once, write() leaves
\* its text in the buffer of lock_file.
WriteEnv(p) ==
    /\ authPc[p] = "write"
    /\ IF MentionsToken(content[p])
       THEN /\ envLines' = << >>
            /\ buffered' = [buffered EXCEPT ![p] = Updated(content[p], p)]
       ELSE /\ buffered' = [buffered EXCEPT ![p] = Appended(p)]
            /\ UNCHANGED envLines
    /\ authPc' = [authPc EXCEPT ![p] = "unlock"]
    /\ UNCHANGED <<startLines, flock, content, lockOrder>>
    /\ UNCHANGED outsideAuth

\* finally: fcntl.flock(lock_file, fcntl.LOCK_UN)
FlockUn(p) ==
    /\ authPc[p] = "unlock"
    /\ flock' = NoProcess
    /\ authPc' = [authPc EXCEPT ![p] = "close"]
    /\ UNCHANGED <<envLines, startLines, content, buffered, lockOrder>>
    /\ UNCHANGED outsideAuth

\* The end of the with block closes lock_file: the buffer is flushed, and a
\* file opened for appending takes it at its end.
CloseEnv(p) ==
    /\ authPc[p] = "close"
    /\ envLines' = envLines \o buffered[p]
    /\ buffered' = [buffered EXCEPT ![p] = << >>]
    /\ authPc' = [authPc EXCEPT ![p] = "done"]
    /\ UNCHANGED <<startLines, flock, content, lockOrder>>
    /\ UNCHANGED outsideAuth

InitOther == InitDecodeIdle /\ InitBatch /\ InitApi /\ InitSessions /\ InitConfigIdle /\ InitAuthIdle

Init == InitLimiter /\ InitExecutor /\ InitPaginator /\ InitBodyIdle /\ InitOther

\* A caller holds a message document.
InitBody ==
    /\ InitLimiter /\ InitExecutor /\ InitPaginator /\ InitOther
    /\ document \in Documents
    /\ parsed = NotParsed

\* A caller holds the bytes of a body.
InitDecode ==
    /\ InitLimiter /\ InitExecutor /\ InitPaginator /\ InitBodyIdle
    /\ InitBatch /\ InitApi /\ InitSessions /\ InitConfigIdle /\ InitAuthIdle
    /\ rawBytes \in ByteStrings
    /\ decodedText = NotDecoded

\* A home directory and a process environment before load_config.
InitConfig ==
    /\ InitLimiter /\ InitExecutor /\ InitPaginator /\ InitBodyIdle
    /\ InitDecodeIdle /\ InitBatch /\ InitApi /\ InitSessions /\ InitAuthIdle
    /\ envFile \in EnvFiles
    /\ environ \in Environs
    /\ config = NotLoaded

\* ~/.env before the auth processes start.
InitAuth ==
    /\ InitLimiter /\ InitExecutor /\ InitPaginator /\ InitBodyIdle
    /\ InitDecodeIdle /\ InitBatch /\ InitApi /\ InitSessions /\ InitConfigIdle
    /\ envLines \in StartFiles
    /\ startLines = envLines
    /\ flock = NoProcess
    /\ authPc = [p \in Processes |-> "idle"]
    /\ content = [p \in Processes |-> << >>]
    /\ buffered = [p \in Processes |-> << >>]
    /\ lockOrder = << >>

Next ==
    \/ Tick
    \/ \E t \in Threads :
        \/ Acquire(t)
        \/ AcquireLock(t)
        \/ ReadNow(t)
        \/ Refill(t)
        \/ Test(t)
        \/ Wake(t)
        \/ Debit(t)
        \/ ReleaseLock(t)

Spec == Init /\ [][Next]_vars

\* The limiter under fair scheduling: time passes, a thread inside acquire()
\* keeps running, and the lock is fair (a thread that waits for it while it
\* is released again and again gets it).
SpecAcquire ==
    /\ Init
    /\ [][Next]_vars
    /\ WF_vars(Tick)
    /\ \A t \in Threads :
        /\ SF_vars(AcquireLock(t))
        /\ WF_vars(ReadNow(t) \/ Refill(t) \/ Test(t) \/ Wake(t) \/ Debit(t)
                      \/ ReleaseLock(t))

\* One caller runs execute_gmail_request calls one after the other.
NextExec ==
    \/ Tick
    \/ ExecuteGmailRequest(Executor)
    \/ AcquireLock(Executor)
    \/ ReadNow(Executor)
    \/ Refill(Executor)
    \/ Test(Executor)
    \/ Wake(Executor)
    \/ Debit(Executor)
    \/ ReleaseLock(Executor)
    \/ LoopHead(Executor)
    \/ Attempt(Executor)

SpecExec == Init /\ [][NextExec]_vars

\* One pagination session, against any server.
NextPage ==
    \/ FetchAllMessages
    \/ PageLimit
    \/ ListPage

SpecPage == Init /\ [][NextPage]_vars

\* The body decoder applied to one document.
NextBody == ParseBodyCall

SpecBody == InitBody /\ [][NextBody]_vars

\* _decode_bytes applied to one byte string.
NextDecode == DecodeBytesCall

SpecDecode == InitDecode /\ [][NextDecode]_vars

\* A thread is inside the `with self.lock:` block of acquire().
InCritical(t) == pc[t] \in {"now", "refill", "test", "sleep", "debit", "unlock"}

\* A batch fetch and a single fetch.
NextBatch ==
    \/ FetchMessageDetails
    \/ FetchDetail
    \/ ReturnDetails
    \/ FetchMessageFullDetail

SpecBatch == Init /\ [][NextBatch]_vars

\* Commands and tools, in any order.
NextApi ==
    \/ RunOauthFlow
    \/ RunCommand
    \/ CallTool

SpecApi == Init /\ [][NextApi]_vars

\* Two pagination sessions, interleaved page by page.
NextSessions ==
    \E s \in Sessions :
        \/ SessionStart(s)
        \/ SessionPageLimit(s)
        \/ SessionRequest(s)
        \/ SessionResponse(s)

SpecSessions == Init /\ [][NextSessions]_vars

\* One call of load_config for every file and environment.
NextConfig == LoadConfigCall

SpecConfig == InitConfig /\ [][NextConfig]_vars

\* Two auth processes saving their tokens, interleaved step by step.
NextAuth ==
    \E p \in Processes :
        \/ OpenEnv(p)
        \/ FlockEx(p)
        \/ ReadEnv(p)
        \/ WriteEnv(p)
        \/ FlockUn(p)
        \/ CloseEnv(p)

SpecAuth == InitAuth /\ [][NextAuth]_vars

\* One session whose list requests go through the attempts of the
\* executor; its thread keeps running.
NextListing ==
    \/ SessionStart(Lister)
    \/ SessionPageLimit(Lister)
    \/ ListExecute
    \/ LoopHead(Executor)
    \/ Attempt(Executor)
    \/ ListReturn

SpecListing == Init /\ [][NextListing]_vars /\ WF_vars(NextListing)

\* ------------------------------------------------------------------ claims

\* C1: in every execution the number of acquire() calls that return inside
\* any time interval of length T is at most capacity + rate*T.  An interval
\* of L ticks lasts L/(rate*TokenUnit) seconds, so the bound on the returns
\* numbered i..j is (j-i+1) tokens <= capacity + (returns[j]-returns[i]) units.
C1_ThroughputBounded ==
    \A i, j \in 1 .. Len(returns) :
        i <= j => (j - i + 1) * TokenUnit <= capacity + (returns[j] - returns[i])

\* C2: the time elapsed between the first and the N-th return of acquire()
\* of any run of N consecutive consumptions is never less than (N-1)/rate
\* seconds, that is (N-1)*TokenUnit ticks.
C2_SpacingAtLeastRate ==
    \A i, j \in 1 .. Len(returns) :
        i <= j => returns[j] - returns[i] >= (j - i) * TokenUnit

\* C3: the refill, the test tokens < 1 and the debit are atomic per caller:
\* at most one thread is inside the locked block, the balance a caller
\* tested is still the balance when it debits or sleeps, and a caller that
\* debits finds a whole token (no two callers take the same token).
C3_AtomicPerCaller ==
    /\ \A t1, t2 \in Threads : t1 # t2 => ~(InCritical(t1) /\ InCritical(t2))
    /\ \A t \in Threads : InCritical(t) => lock = t
    /\ \A t \in Threads : pc[t] \in {"sleep", "debit"} => tokens = seen[t]
    /\ \A t \in Threads : pc[t] = "debit" => tokens >= TokenUnit

\* Two callers contend while fewer than two tokens are available: one is
\* about to debit the only token, the other is blocked on the lock.
C3_Witness ==
    \E t1, t2 \in Threads :
        /\ t1 # t2
        /\ pc[t1] = "debit" /\ seen[t1] < 2 * TokenUnit
        /\ pc[t2] = "lock"

\* C4: in every reachable state of the limiter 0 <= tokens <= capacity.
C4_TokensInRange == 0 <= tokens /\ tokens <= capacity

\* After at least one call returned, a later call refilled the bucket to the
\* capacity over a period longer than the refill needed.
C4_Witness ==
    \E t \in Threads :
        /\ pc[t] = "test" /\ tokens = capacity
        /\ returns # << >>
        /\ now[t] - returns[Len(returns)] > capacity

\* C5: after the limiter has been idle for at least capacity/rate seconds,
\* or right after construction, the next floor(capacity) acquire() calls
\* return without sleeping.
C5_BurstNoWait == \A t \in Threads : inBurst[t] => pc[t] # "sleep"

\* The burst owed at construction is used up, and a call that follows an idle
\* period of capacity/rate seconds takes its token without sleeping.
C5_Witness ==
    \E t \in Threads :
        /\ inBurst[t] /\ pc[t] = "debit"
        /\ Len(returns) >= WholeTokens(capacity)
        /\ Len(returns) >= 1
        /\ burstLeft = WholeTokens(capacity) - 1

\* A thread is inside acquire().
InAcquire(t) == pc[t] \in {"lock", "now", "refill", "test", "sleep", "debit", "unlock"}

\* The last invocation of the request failed with a retryable status.
RetryableFailure(r) == r.kind = "HttpError" /\ r.status \in {429, 500, 502, 503}

\* The last invocation of the request failed with any other HTTP status.
TerminalFailure(r) == r.kind = "HttpError" /\ r.status \notin {429, 500, 502, 503}

\* C6: each call of execute_gmail_request calls acquire() exactly once,
\* before the first attempt of the request, and never again between retry
\* attempts.
C6_AcquireOncePerCall ==
    /\ acquired <= 1
    /\ attempts > 0 => ~InAcquire(Executor)
    /\ pc[Executor] \in {"loop", "try", "returned", "raised"} => acquired = 1

\* The request was retried up to the budget and then succeeded, with a
\* single acquire() for the whole call.
C6_Witness ==
    /\ pc[Executor] = "returned"
    /\ attempts = GMAIL_MAX_RETRIES + 1
    /\ sleepCount = GMAIL_MAX_RETRIES
    /\ acquired = 1

\* C7: if the request fails f <= GMAIL_MAX_RETRIES times in a row with a
\* retryable status and then succeeds, the call returns that payload after
\* exactly f+1 attempts.  On the executor: after f <= GMAIL_MAX_RETRIES
\* retryable failures the call goes on to the next attempt, and a success
\* ends it with the payload and with attempts = failures + 1.
C7_SuccessAfterRetries ==
    /\ (RetryableFailure(lastResp) /\ failures <= GMAIL_MAX_RETRIES)
            => pc[Executor] \in {"loop", "try"}
    /\ lastResp.kind = "ok" =>
            /\ pc[Executor] = "returned"
            /\ result = lastResp.payload
            /\ attempts = failures + 1

\* C8: if every attempt fails with a retryable status the call raises the
\* error of the last attempt after exactly GMAIL_MAX_RETRIES + 1 attempts,
\* and the request is never invoked more than GMAIL_MAX_RETRIES + 1 times.
C8_RaisesAfterBudget ==
    /\ attempts <= GMAIL_MAX_RETRIES + 1
    /\ (pc[Executor] = "raised" /\ RetryableFailure(lastResp) /\ failures = attempts)
            => /\ attempts = GMAIL_MAX_RETRIES + 1
               /\ raised = lastResp

\* C9: a failure whose status is not in {429, 500, 502, 503}, on the first
\* or on any later attempt, is propagated at once: the call has raised that
\* error, no attempt follows it and no backoff sleep follows it (the sleeps
\* are those of the earlier attempts).
C9_TerminalPropagates ==
    TerminalFailure(lastResp) =>
        /\ pc[Executor] = "raised"
        /\ raised = lastResp
        /\ sleepCount = attempts - 1

\* A terminal failure arrives on a later attempt, after retries.
C9_Witness ==
    /\ TerminalFailure(lastResp)
    /\ pc[Executor] = "raised"
    /\ attempts >= 2

\* The wait C10 states: the Retry-After value when the response carries one
\* that parses as a number, else GMAIL_RETRY_BASE_WAIT * 2^i.
ClaimedWait(r, i) ==
    IF r.retry_after.present /\ FloatParses(r.retry_after.text)
    THEN Float(r.retry_after.text)
    ELSE GMAIL_RETRY_BASE_WAIT * (2 ^ i)

\* C10: when attempt i fails with a retryable status and i < GMAIL_MAX_RETRIES,
\* the executor sleeps exactly once before attempt i+1, for the wait above
\* (i = attempts - 1 is the index of the attempt that failed).
C10_SleepsOnceForWait ==
    (RetryableFailure(lastResp) /\ attempts - 1 < GMAIL_MAX_RETRIES) =>
        /\ pc[Executor] \in {"loop", "try"}
        /\ sleepCount = attempts
        /\ lastSleep = ClaimedWait(lastResp, attempts - 1)

\* The exits of the pagination loop that are no failure of a request.
BoundStops == {"max_pages", "memory", "max_results", "no_token", "cycle"}

\* _fetch_all_messages[:...] of the accumulator as the code cuts it on the
\* page that ended the session: to the memory ceiling, else to max_results.
Truncated(msgs, mr) ==
    IF MemoryLimitReached(Len(msgs)) THEN Prefix(msgs, MAX_MESSAGES_IN_MEMORY)
    ELSE IF MaxResultsReached(mr, Len(msgs)) THEN Prefix(msgs, mr)
    ELSE msgs

\* C11 as stated: whatever the server does, terminal failures and exhausted
\* retries included, a pagination session returns a list and never raises.
C11_NeverRaises == pgPc # "raised"

\* C11 as amended: a session ends with an exception only when a list request
\* failed, and then with the exception of that request; every exit on a
\* bound of the paginator returns a list.
C11_RaisesOnlyRequestFailure ==
    /\ pgPc = "raised" => (lastPage.kind # "ok" /\ fetchRaised = lastPage)
    /\ stop \in BoundStops => pgPc = "returned"

\* A request fails after a page was accumulated, and a session ends on the
\* page ceiling.
C11_Witness ==
    \/ pgPc = "raised" /\ page_count >= 1 /\ Len(all_messages) >= 1
    \/ pgPc = "returned" /\ stop = "max_pages"

\* C12 as stated: when a page carries a continuation token that an earlier
\* page of the session returned, no further request is made and the items
\* accumulated so far, those of that page included, are returned.
C12_RepeatedTokenReturnsAll ==
    repeated => (pgPc = "returned" /\ fetched = all_messages)

\* C12 as amended: the session ends on that page and returns the accumulated
\* items, cut to MAX_MESSAGES_IN_MEMORY or max_results when that page reached
\* one of them.
C12_RepeatedTokenStops ==
    repeated =>
        /\ pgPc = "returned"
        /\ fetched = Truncated(all_messages, max_results)
        /\ listCalls = page_count

\* A repeated token ends a session that no other bound ended.
C12_Witness ==
    /\ repeated
    /\ stop = "cycle"
    /\ Len(fetched) >= 2

\* C13: for max_results = k >= 1, when the server served more than k results
\* over its pages, exactly the first k are returned.
C13_ExactlyMaxResults ==
    (pgPc = "returned" /\ max_results # None /\ Len(all_messages) > max_results) =>
        fetched = Prefix(all_messages, max_results)

\* C14: the returned list has at most MAX_MESSAGES_IN_MEMORY items, and when
\* the accumulator reaches the ceiling its first MAX_MESSAGES_IN_MEMORY items
\* are returned and no further page is requested.
C14_MemoryCeiling ==
    /\ pgPc = "returned" => Len(fetched) <= MAX_MESSAGES_IN_MEMORY
    /\ Len(all_messages) >= MAX_MESSAGES_IN_MEMORY =>
           /\ pgPc = "returned"
           /\ fetched = Prefix(all_messages, MAX_MESSAGES_IN_MEMORY)
           /\ listCalls = page_count

\* The accumulator overshoots the ceiling in a session without max_results.
C14_Witness ==
    /\ max_results = None
    /\ Len(all_messages) > MAX_MESSAGES_IN_MEMORY
    /\ pgPc = "returned"

\* C15: a session issues at most MAX_PAGES list requests, and on the page
\* ceiling the accumulated items are returned, not an error.
C15_PageCeiling ==
    /\ listCalls <= MAX_PAGES
    /\ stop = "max_pages" =>
           /\ pgPc = "returned"
           /\ fetched = all_messages
           /\ listCalls = MAX_PAGES

\* MAX_PAGES pages were fetched, the last one with a fresh token, and the
\* session returned what it had.
C15_Witness ==
    /\ stop = "max_pages"
    /\ listCalls = MAX_PAGES
    /\ Len(fetched) >= 1

\* The text a well-formed part carries.
PartText(part) == DecodeBytes(UrlsafeB64decode(part.body.data).value)

\* The text of the first direct child of the given media type, "" if none.
FirstDirect(items, mime) ==
    IF \E i \in 1 .. Len(items) : items[i].mimeType = mime
    THEN PartText(items[CHOOSE i \in 1 .. Len(items) :
                      /\ items[i].mimeType = mime
                      /\ \A k \in 1 .. i - 1 : items[k].mimeType # mime])
    ELSE << >>

\* The first value of the given media type found in child order, a nested
\* composite counting for what is first found inside it.
RECURSIVE FirstFound(_, _, _)
FirstFound(items, i, mime) ==
    IF i > Len(items) THEN << >>
    ELSE LET here == IF items[i].parts.type = "list"
                     THEN FirstFound(items[i].parts.items, 1, mime)
                     ELSE IF items[i].mimeType = mime THEN PartText(items[i])
                     ELSE << >>
         IN  IF here # << >> THEN here ELSE FirstFound(items, i + 1, mime)

\* C16: a composite of a text/plain part holding base64url(utf8(t)) and a
\* text/html part holding base64url(utf8(h)) decodes to exactly (t, h).
C16_RoundTrip ==
    \A t, h \in Texts :
        (parsed.kind # "none" /\ document = TwoPartDocument(t, h)) =>
            (parsed.kind = "ok" /\ parsed.text = t /\ parsed.html = h)

\* Texts of two and of three bytes, padded differently, came back.
C16_Witness ==
    /\ document = TwoPartDocument(<<233>>, <<8364>>)
    /\ parsed.kind = "ok"
    /\ parsed.text = <<233>>
    /\ parsed.html = <<8364>>

\* C17: among the direct children of a composite the first text/plain child
\* with a payload gives the text, and a later text/plain sibling does not
\* overwrite it.
C17_FirstPlainSiblingWins ==
    (parsed.kind # "none" /\ document \in FlatDocuments) =>
        parsed.text = FirstDirect(document.parts.items, "text/plain")

\* C18: across nesting levels the value first found in child order wins: a
\* value from an earlier child, nested or direct, is not replaced by a later
\* child, nested composite or direct part.
C18_FirstFoundWins ==
    (parsed.kind # "none" /\ document \in TreeDocuments \ FlatDocuments) =>
        /\ parsed.text = FirstFound(document.parts.items, 1, "text/plain")
        /\ parsed.html = FirstFound(document.parts.items, 1, "text/html")

\* C19: the decoder never raises on a malformed document (missing keys, a
\* null or wrongly typed body or parts, invalid base64, undecodable bytes).
C19_NeverRaises ==
    document \in MalformedDocuments => parsed.kind # "raise"

\* C20: on a document nested MAX_MIME_DEPTH + 5 deep the decoder returns
\* without raising, no call of the recursion runs with a depth above
\* MAX_MIME_DEPTH + 1, the parts of composites within the cap are extracted
\* and those beyond it contribute empty strings.
C20_DepthCapped ==
    /\ parsed.deepest <= MAX_MIME_DEPTH + 1
    /\ \A i, j \in DeepLevels :
        (parsed.kind # "none" /\ document = DeepDocument(i, j)) =>
            /\ parsed.kind = "ok"
            /\ parsed.text = IF i <= MAX_MIME_DEPTH THEN <<65>> ELSE << >>
            /\ parsed.html = IF j <= MAX_MIME_DEPTH THEN <<233>> ELSE << >>

\* The text part sits in the last composite within the cap and is found, the
\* HTML part in the first one beyond it and is not.
C20_Witness ==
    /\ document = DeepDocument(MAX_MIME_DEPTH, MAX_MIME_DEPTH + 1)
    /\ parsed.kind = "ok"
    /\ parsed.text = <<65>>
    /\ parsed.html = << >>
    /\ parsed.deepest = MAX_MIME_DEPTH + 1

\* C21: _decode_bytes returns the decoding under the first of UTF-8,
\* windows-1252 and ISO-8859-1, in that order, that accepts the bytes; bytes
\* that are not UTF-8 but are windows-1252 come back as windows-1252 and not
\* through the UTF-8 replacement fallback.
C21_FirstEncodingWins ==
    decodedText.done =>
        /\ decodedText.text =
               IF Utf8Decode(rawBytes).ok THEN Utf8Decode(rawBytes).value
               ELSE IF Cp1252Decode(rawBytes).ok THEN Cp1252Decode(rawBytes).value
               ELSE Latin1Decode(rawBytes).value
        /\ (~Utf8Decode(rawBytes).ok /\ Cp1252Decode(rawBytes).ok) =>
               decodedText.text # Utf8Replace(rawBytes)

\* The byte 0x80, no UTF-8, came back as U+20AC, its windows-1252 reading.
C21_Witness ==
    /\ rawBytes = <<128>>
    /\ decodedText.done
    /\ decodedText.text = <<8364>>

\* C22: in fetch_message_details a message whose request ends in a failure
\* is skipped and the others are still fetched, the result holding one entry
\* per fetched message in input order; in fetch_message_full_detail the same
\* failure reaches the caller.
C22_BatchSkipsFailures ==
    /\ batchPc # "raised"
    /\ batchPc = "returned" =>
           /\ Len(outcomes) = Len(messages)
           /\ message_data = Fetched(messages, outcomes)
    /\ (fullPc # "idle" /\ fullOutcome.kind # "ok") =>
           (fullPc = "raised" /\ fullEnded = fullOutcome)

\* C23: whatever commands and tools run, the only Gmail API methods invoked
\* are list, get and getProfile, no mutating method is called, and the only
\* OAuth scope requested is gmail.readonly.
C23_ReadOnly ==
    /\ \A c \in apiCalled :
           c.method \in {"list", "get", "getProfile"} /\ c.method \notin MutatingMethods
    /\ scopesUsed \subseteq {"https://www.googleapis.com/auth/gmail.readonly"}

\* A read and a listing ran, and the scope was requested.
C23_Witness ==
    /\ Call("messages", "get") \in apiCalled
    /\ Call("messages", "list") \in apiCalled
    /\ \E i \in 1 .. Len(opLog) : opLog[i] \in {"read", "gmail_read"}
    /\ scopesUsed # {}

\* C24: the limiter's lock is held only for the refill, the debit and the
\* decision to sleep: a caller asleep in acquire() does not hold the lock, so
\* another caller can enter the critical section meanwhile.
C24_SleepReleasesLock ==
    \A t \in Threads : pc[t] = "sleep" => lock # t

\* C25: sessions running concurrently each end as they would end alone
\* against the same responses: the page token, the seen tokens, the page
\* count and the accumulator belong to the session.
C25_SessionsIndependent ==
    \A s \in Sessions :
        session[s].pc # "idle" =>
            LET alone == RunAlone(Locals(session[s].max_results, "loop"), script[s], 1)
            IN  /\ session[s].pc \in {"loop", "list", alone.pc}
                /\ session[s].pc \notin {"loop", "list"} =>
                       /\ alone.pc = session[s].pc
                       /\ alone.result = session[s].result

\* Both sessions have returned after following a token that the other
\* session had followed before.
C25_Witness ==
    /\ \A s \in Sessions : session[s].pc = "returned" /\ Len(script[s]) >= 2
    /\ session[1].seen_tokens \cap session[2].seen_tokens # {}
    /\ session[1].result # session[2].result

\* C26: load_config decides in order: no ~/.env, FileNotFoundError; else a
\* required variable missing, EnvironmentError naming what is missing, even
\* when the client ID present is malformed; else a client ID without the
\* domain suffix, EnvironmentError; else the three values, refresh_token
\* None when GMAIL_REFRESH_TOKEN is unset.
C26_DecisionOrder ==
    config # NotLoaded =>
        LET id == environ["GMAIL_CLIENT_ID"]
            secret == environ["GMAIL_CLIENT_SECRET"]
            absent == {v \in {"GMAIL_CLIENT_ID", "GMAIL_CLIENT_SECRET"} : Falsy(environ[v])}
        IN  IF ~envFile.exists THEN config.kind = "FileNotFoundError"
            ELSE IF absent # {}
            THEN /\ config.kind = "EnvironmentError"
                 /\ config.why = "missing"
                 /\ {config.names[i] : i \in 1 .. Len(config.names)} = absent
            ELSE IF ~EndsWith(id.text, ClientIdSuffix)
            THEN config.kind = "EnvironmentError" /\ config.why = "malformed"
            ELSE /\ config.kind = "returned"
                 /\ config.client_id = id
                 /\ config.client_secret = secret
                 /\ config.refresh_token = environ["GMAIL_REFRESH_TOKEN"]
                 /\ ~environ["GMAIL_REFRESH_TOKEN"].set => config.refresh_token = Unset

\* The secret is missing while the client ID present is malformed, and the
\* call named the secret.
C26_Witness ==
    /\ config # NotLoaded
    /\ envFile.exists
    /\ ~Falsy(environ["GMAIL_CLIENT_ID"])
    /\ ~EndsWith(environ["GMAIL_CLIENT_ID"].text, ClientIdSuffix)
    /\ Falsy(environ["GMAIL_CLIENT_SECRET"])
    /\ config.kind = "EnvironmentError"
    /\ config.names = <<"GMAIL_CLIENT_SECRET">>

\* C27: two concurrent _append_refresh_token_to_env calls never overlap
\* between the read of ~/.env and the arrival of the write in the file, and
\* from a file without a GMAIL_REFRESH_TOKEN line they leave exactly one
\* GMAIL_REFRESH_TOKEN= line, with the token of the call that locked last.
C27_AppendsSerialised ==
    LET Busy(p) == authPc[p] \in {"write", "unlock", "close"}
        saved == SelectSeq(envLines, LAMBDA l : l.kind = "GMAIL_REFRESH_TOKEN=")
    IN  /\ \A p, q \in Processes : p # q => ~(Busy(p) /\ Busy(q))
        /\ (/\ \A p \in Processes : authPc[p] = "done"
            /\ ~MentionsToken(startLines))
               => /\ Len(saved) = 1
                  /\ saved[1].token = lockOrder[Len(lockOrder)]

\* The items of the pages rs, from the i-th on, in the order received, when
\* `have` items came before.
RECURSIVE Delivered(_, _, _)
Delivered(rs, i, have) ==
    IF i > Len(rs) THEN << >>
    ELSE IF rs[i].kind # "ok" THEN Delivered(rs, i + 1, have)
    ELSE Messages(have, rs[i].count) \o Delivered(rs, i + 1, have + rs[i].count)

\* The session returned on a page without a token, below every bound.
EndedWithoutToken(s) ==
    /\ session[s].pc = "returned"
    /\ Len(script[s]) > 0
    /\ script[s][Len(script[s])].kind = "ok"
    /\ script[s][Len(script[s])].nextPageToken = NoToken
    /\ ~MemoryLimitReached(Len(Delivered(script[s], 1, 0)))
    /\ ~MaxResultsReached(session[s].max_results, Len(Delivered(script[s], 1, 0)))

\* C28: when pagination ends on a page without a continuation token and no
\* bound was hit, the result is the items of all pages fetched, in fetch
\* order, each once.
C28_ResultIsConcatenation ==
    \A s \in Sessions :
        EndedWithoutToken(s) => session[s].result = Delivered(script[s], 1, 0)

\* A session ended on its third page, having received items on two pages.
C28_Witness ==
    \E s \in Sessions :
        /\ EndedWithoutToken(s)
        /\ Len(script[s]) = 3
        /\ Cardinality({n \in 1 .. 3 : script[s][n].count > 0}) = 2

\* C29: the first list request of a session carries no page token, request
\* N+1 carries the nextPageToken of page N, and a request is sent only when
\* every earlier request has ended.
C29_TokensChained ==
    \A s \in Sessions :
        /\ Len(sentTokens[s]) =
               Len(script[s]) + (IF session[s].pc = "list" THEN 1 ELSE 0)
        /\ \A n \in 1 .. Len(sentTokens[s]) :
               IF n = 1 THEN sentTokens[s][n] = NoToken
               ELSE /\ script[s][n - 1].kind = "ok"
                    /\ script[s][n - 1].nextPageToken # NoToken
                    /\ sentTokens[s][n] = script[s][n - 1].nextPageToken

\* A session has sent its third request.
C29_Witness ==
    \E s \in Sessions : Len(sentTokens[s]) = 3 /\ session[s].pc = "list"

\* C30: whatever the server does, _fetch_all_messages ends, by returning or
\* by raising, after at most MAX_PAGES list calls of at most
\* GMAIL_MAX_RETRIES + 1 attempts each.
C30_Terminates ==
    /\ [](/\ Len(sentTokens[Lister]) <= MAX_PAGES
          /\ attempts <= GMAIL_MAX_RETRIES + 1)
    /\ (session[Lister].pc \in {"loop", "list"}
           ~> session[Lister].pc \in {"returned", "raised"})

\* The session returned at the page limit, and its last list call succeeded
\* on its last attempt.
C30_Witness ==
    /\ session[Lister].pc = "returned"
    /\ Len(sentTokens[Lister]) = MAX_PAGES
    /\ session[Lister].page_count = MAX_PAGES
    /\ attempts = GMAIL_MAX_RETRIES + 1

\* C31: a document that carries a non-empty inline payload itself comes back
\* as the decoding of that payload, in the html field when its media type
\* contains "html" in any case and in the text field otherwise, with the
\* other field empty and its child parts ignored.
C31_InlinePayload ==
    \A mime \in InlineMimes, t \in Texts \ {<< >>}, parts \in InlineParts :
        (parsed.kind # "none" /\ document = InlineDocument(mime, t, parts)) =>
            /\ parsed.kind = "ok"
            /\ IF mime \in {"text/html", "TEXT/HTML", "application/xhtml+xml"}
               THEN parsed.html = t /\ parsed.text = << >>
               ELSE parsed.text = t /\ parsed.html = << >>

\* An upper-case HTML document with two child parts came back as HTML only.
C31_Witness ==
    /\ document = InlineDocument("TEXT/HTML", <<8364>>,
                                 Parts(<<HtmlPart(<<65>>), TextPart(<<233>>)>>))
    /\ parsed.kind = "ok"
    /\ parsed.html = <<8364>>
    /\ parsed.text = << >>

\* C32: a call of execute_gmail_request never ends without an outcome: it
\* returns the value of a successful attempt or it raises an exception
\* (that of its last attempt, of time.sleep, or past the loop the last
\* recorded retryable error), and never returns without a value.
C32_AlwaysAnOutcome ==
    /\ pc[Executor] = "returned" =>
           /\ lastResp.kind = "ok"
           /\ result = lastResp.payload
           /\ result \in Payloads
           /\ raised = NoError
    /\ pc[Executor] = "raised" =>
           /\ raised # NoError
           /\ result = "none"
           /\ raised \in {lastResp, Exception("ValueError"), Exception("RuntimeError")}

\* A call gave up after all its attempts and raised the failure of the last.
C32_Witness ==
    /\ pc[Executor] = "raised"
    /\ attempts = GMAIL_MAX_RETRIES + 1
    /\ raised = lastResp
    /\ raised.kind = "HttpError"
    /\ IsRetryable(raised.status)

\* C33: for max_results >= 1 the list returned has at most max_results
\* items, also when one page brings the accumulator both to max_results and
\* to MAX_MESSAGES_IN_MEMORY.
C33_AtMostMaxResults ==
    (pgPc = "returned" /\ max_results # None) => Len(fetched) <= max_results

\* Direct children of a composite that the decoder takes for text: one whose
\* data is not valid base64 (bad padding, a character that is not ASCII), and
\* one that lacks the body or the data key.
UndecodableChildren ==
    {Node(mime, Body(d), parts) :
        mime \in {"text/plain", "text/html"},
        d \in {JStr(<<16, 16>>), JStr(<<NonAscii>>)},
        parts \in {PartsAbsent, Parts(<< >>)}}

KeylessChildren ==
    {Node(mime, body, parts) :
        mime \in {"text/plain", "text/html"},
        body \in {BodyAbsent, Body(JAbsent)},
        parts \in {PartsAbsent, Parts(<< >>)}}

AfterText(m) == Composite(<<TextPart(<<65>>), m>>)

\* C34 as stated: a direct child whose decoding fails, through invalid
\* base64 or through a missing key, makes both fields the sentinel and
\* discards what earlier siblings gave.
C34_FailureOrMissingKeyGivesSentinel ==
    \A m \in UndecodableChildren \cup KeylessChildren :
        (parsed.kind # "none" /\ document \in {Composite(<<m>>), AfterText(m)}) =>
            /\ parsed.kind = "ok"
            /\ parsed.text = ParsingError
            /\ parsed.html = ParsingError

\* C34, amended: a direct text child with invalid base64 makes both fields
\* the sentinel and discards what earlier siblings gave; a direct child that
\* lacks the body or the data key fails nothing and is passed over, and the
\* values of its siblings stand.
C34_InvalidBase64GivesSentinel ==
    /\ \A m \in UndecodableChildren :
           (parsed.kind # "none" /\ document \in {Composite(<<m>>), AfterText(m)}) =>
               /\ parsed.kind = "ok"
               /\ parsed.text = ParsingError
               /\ parsed.html = ParsingError
    /\ \A m \in KeylessChildren :
           (parsed.kind # "none" /\ document \in {Composite(<<m>>), AfterText(m)}) =>
               /\ parsed.kind = "ok"
               /\ parsed.text = IF document = AfterText(m) THEN <<65>> ELSE << >>
               /\ parsed.html = << >>

\* The text of the first child was discarded for the sentinel when the
\* second child's data was badly padded.
C34_Witness ==
    /\ document = AfterText(Node("text/html", Body(JStr(<<16, 16>>)), PartsAbsent))
    /\ parsed.kind = "ok"
    /\ parsed.text = ParsingError
    /\ parsed.html = ParsingError

\* C35: within a session no continuation token is sent in more than one
\* list request: the token of every request made so far is among the seen
\* tokens, the seen tokens are never forgotten while the session runs, and a
\* token becomes the next request's token only if it is not among them.
C35_TokenSentOnce ==
    /\ [](page_token # NoToken => page_token \in seen_tokens)
    /\ [][/\ pgPc = "loop" => seen_tokens \subseteq seen_tokens'
          /\ page_token' # page_token =>
                 page_token' = NoToken \/ page_token' \notin seen_tokens]_vars

\* The third page carried the token of the first page again, and the
\* session ended there without sending it a second time.
C35_Witness ==
    /\ stop = "cycle"
    /\ Cardinality(seen_tokens) = 2
    /\ lastPage.nextPageToken \in seen_tokens \ {page_token}

C37_WaitNeverFails ==
    pc[Executor] = "raised" =>
        /\ raised # Exception("ValueError")
        /\ RetryableFailure(lastResp) => attempts = GMAIL_MAX_RETRIES + 1

\* C38: every acquire() call eventually returns, whatever the other callers
\* do, when the lock is fair; and a call sleeps at most once, for at most
\* 1/rate seconds (TokenUnit ticks), after it has obtained the lock: a sleep
\* starts only at the test of the balance, by the holder of the lock, and
\* ends only at the exit of the `with` block, where the call returns.
C38_AcquireReturns ==
    /\ \A t \in Threads : pc[t] = "lock" ~> pc[t] = "idle"
    /\ [][\A t \in Threads :
            /\ (pc[t] # "sleep" /\ pc'[t] = "sleep") =>
                    /\ pc[t] = "test"
                    /\ lock = t
                    /\ wakeAt'[t] - clock \in 0 .. TokenUnit
            /\ (pc[t] = "sleep" /\ pc'[t] # "sleep") => pc'[t] = "unlock"
            /\ (pc[t] = "unlock" /\ pc'[t] # "unlock") =>
                    /\ pc'[t] = "idle"
                    /\ Len(returns') = Len(returns) + 1]_vars

\* A call that slept is about to return while another caller waits for the
\* lock.
C38_Witness ==
    \E t, u \in Threads :
        /\ pc[t] = "unlock"
        /\ seen[t] < TokenUnit
        /\ pc[u] = "lock"

\* C39: after _append_refresh_token_to_env(t) has returned, ~/.env has the
\* line GMAIL_REFRESH_TOKEN=t, whatever the file held before, also when it
\* named GMAIL_REFRESH_TOKEN only in a comment or after a prefix.  Stated
\* for a call that ran alone (the other process never started).
C39_TokenLineWritten ==
    \A p \in Processes :
        (/\ authPc[p] = "done"
         /\ \A q \in Processes \ {p} : authPc[q] = "idle")
            => \E i \in 1 .. Len(envLines) : envLines[i] = TokenLine(p)

====
